---- MODULE Spec2Model ----
(***************************************************************************)
(* A model of the pattern scoring engine and of the context-aware filter   *)
(* of code-whisperer-core.                                                  *)
(*                                                                          *)
(* Numbers.  The code computes in f32/f64; the model computes the same      *)
(* expressions exactly, in fixed point:                                     *)
(*   sub-scores (recency, frequency, context, user preference, relevance)  *)
(*     in thousandths        (0.5 is 500),                                  *)
(*   weights and confidences in hundredths (0.25 is 25),                    *)
(*   composite scores in units of 10^-7 (thousandths * hundredths *         *)
(*     hundredths).                                                         *)
(* Time is the Unix time in seconds (chrono::Utc::now().timestamp()).  One  *)
(* handler reads the clock once: the few clock reads of one call are taken  *)
(* to return the same second.                                               *)
(* Strings that are only compared for equality are TLA+ strings; pattern    *)
(* identities, which the code searches and orders, are sequences of their   *)
(* '_'-separated tokens; texts that the code scans character by character   *)
(* are sequences of one-character strings.                                  *)
(***************************************************************************)
EXTENDS Integers, Sequences, FiniteSets, TLC

VARIABLES
    now,                  \* chrono::Utc::now(), seconds
    scoring_config,       \* PatternScoringEngine.scoring_config
    historical_patterns,  \* PatternScoringEngine.historical_patterns: the entries of the HashMap
    scoring_result,       \* ScoringResult.scored_patterns of the last score_patterns call
    scoring_request,      \* the last score_patterns call: its arguments, its time, the
                          \* configuration in force and what the history held for it
    requests,             \* number of score_patterns calls so far
    scored_ids,           \* the identities scored so far
    context_cache,        \* ContextAnalyzer.context_cache: the entries of the HashMap
    preference_cache,     \* PreferenceEngine.preference_cache
    project_cache,        \* ProjectAnalyzer.project_cache
    cache_reads,          \* the cache look-ups of the last call, in order
    advances,             \* how often the clock has moved between two filter or cache calls
    borrow,               \* the request that holds the engine's exclusive borrow
                          \* (&mut self), or "none"
    calls,                \* for each requester, where its request stands
    audit,                \* for each record of the history: the updates applied to it
                          \* in full, and the request that last wrote each field
    filter_trace,         \* the filter_suggestions call just made, if the last call was
                          \* one: arguments, analyses, stage outputs, result
    parse_trace,          \* the front-end call just made (parse_code, extract_patterns,
                          \* analyze_code): arguments and result
    generation_trace,     \* the generate_suggestions call just made: arguments, outcome
    suggestion_config,    \* SuggestionGenerationEngine.suggestion_config
    analysis_trace,       \* the extractor call just made (extract_patterns on a tree,
                          \* a style or naming detector): arguments and result
    session_data,         \* UserBehaviorTracker.session_data: the counters and languages_used
    privacy_settings,     \* UserBehaviorTracker.privacy_settings.data_collection_enabled
    wasm_cache,           \* WasmCache.cache: the entries of the HashMap
    access_count,         \* WasmCache.access_count: the entries of the HashMap
    max_size,             \* WasmCache.max_size
    frequency_log         \* for each identity, the frequency sub-scores the score_patterns
                          \* calls have computed for it, in the order of the calls

scoringState == <<scoring_config, historical_patterns, scoring_result,
                  scoring_request, requests, scored_ids>>

scoringVars == <<now, scoringState>>

cacheState == <<context_cache, preference_cache, project_cache>>

filterState == <<cacheState, cache_reads, advances, filter_trace>>

concState == <<borrow, calls, audit>>

frontState == <<parse_trace, generation_trace, suggestion_config>>

\* the components beside the engines: extractor, behaviour tracker, WASM cache
toolState == <<analysis_trace, session_data, privacy_settings, wasm_cache, access_count,
               max_size>>

sideState == <<toolState, frequency_log>>

vars == <<now, scoringState, filterState, concState, frontState, sideState>>

(***************************************************************************)
(* Bounds of the model.                                                     *)
(***************************************************************************)
MaxRequests == 4      \* score_patterns calls in one behaviour
MaxDays == 7          \* the clock of the scoring behaviours stops after this many days
MaxTop == 2           \* largest n given to get_top_patterns
MaxAdvances == 2      \* clock moves between the calls of one filter behaviour
MaxInputLen == 12     \* longest suggestion list given to filter_suggestions
MaxCodeLen == 3       \* longest source text given to the front end
MaxTrackedRequests == 2  \* score_patterns calls made on an engine that starts with a history
MaxGenerations == 1   \* generate_suggestions calls that get as far as scoring
MaxCacheSize == 2     \* largest max_size given to WasmCache::new
MaxDeclarations == 2  \* most top-level items or lines of a text given to an extractor
MaxNames == 2         \* most identifiers given to a naming-style detector
MaxLines == 3         \* most lines of a text whose style is analysed
MaxTracked == 2       \* the tracker's counters are followed up to this value
MaxAccesses == 3      \* the cache's access counts are followed up to this value

SecondsPerDay == 86400

(***************************************************************************)
(* Generic helpers.                                                         *)
(***************************************************************************)
Min(a, b) == IF a <= b THEN a ELSE b

Range(s) == {s[i] : i \in 1..Len(s)}

Take(s, n) == SubSeq(s, 1, Min(n, Len(s)))

\* str::contains on token sequences: needle occurs in hay as a contiguous run
\* (the empty needle occurs in every hay, as "" does in every Rust string).
Contains(hay, needle) ==
    \E i \in 0..(Len(hay) - Len(needle)) : SubSeq(hay, i + 1, i + Len(needle)) = needle

(***************************************************************************)
(* Inputs of the scoring engine.                                            *)
(***************************************************************************)
\* pattern_extractor::NamingStyle values the behaviours use ({:?} prints the name)
NamingStyles == {"CamelCase", "SnakeCase"}

\* PatternAnalysis, the fields score_patterns reads
PatternAnalyses ==
    { p \in [function_naming : NamingStyles,
             variable_naming : NamingStyles,
             indentation_type : {"Spaces"},
             indentation_size : {4},
             brace_style : {"SameLine"},
             function_length_preference : {20}] :
        ~(p.function_naming = "SnakeCase" /\ p.variable_naming = "CamelCase") }

\* format!("function_naming_style_{:?}", ..) and the four other identities
FunctionNamingId(p) == <<"function", "naming", "style", p.function_naming>>
VariableNamingId(p) == <<"variable", "naming", "style", p.variable_naming>>
IndentationId(p) == <<"indentation", p.indentation_type, ToString(p.indentation_size)>>
BraceStyleId(p) == <<"brace", "style", p.brace_style>>
FunctionLengthId(p) == <<"function", "length", ToString(p.function_length_preference)>>

\* ScoringContext, the fields the engine reads
ScoringContexts ==
    { [current_file_type |-> "javascript", recent_patterns |-> <<>>,
       project_context |-> <<"web", "app">>],
      [current_file_type |-> "python",
       recent_patterns |-> << <<"function", "naming", "style", "CamelCase">> >>,
       project_context |-> <<>>] }

\* ScoringConfiguration: the default, and one that switches every factor off
DefaultScoringConfiguration ==
    [recency_weight |-> 25, frequency_weight |-> 25, context_weight |-> 25,
     user_preference_weight |-> 25, confidence_threshold |-> 60]

ScoringConfigurations ==
    { DefaultScoringConfiguration,
      [recency_weight |-> 0, frequency_weight |-> 0, context_weight |-> 0,
       user_preference_weight |-> 0, confidence_threshold |-> 60] }

(***************************************************************************)
(* The historical map.  A HashMap is modelled by the set of its entries,    *)
(* each a PatternScore; get and entry() look an entry up by pattern_id.     *)
(***************************************************************************)
HasEntry(map, pattern_id) == \E e \in map : e.pattern_id = pattern_id

GetEntry(map, pattern_id) == CHOOSE e \in map : e.pattern_id = pattern_id

\* calculate_style_relevance
CalculateStyleRelevance(style, context) ==
    IF \/ context.current_file_type \in {"javascript", "typescript"} /\ style = "CamelCase"
       \/ context.current_file_type = "python" /\ style = "SnakeCase"
       \/ context.current_file_type = "rust" /\ style = "SnakeCase"
       \/ context.current_file_type \in {"java", "csharp"} /\ style = "PascalCase"
    THEN 900 ELSE 600

\* calculate_frequency_score normalising by 3 uses instead of 100
CalculateFrequencyScoreByThree(map, pattern_id) ==
    IF HasEntry(map, pattern_id)
    THEN Min((GetEntry(map, pattern_id).usage_count * 1000) \div 3, 1000)
    ELSE 100

\* calculate_frequency_score: usage_count / 100 capped at 1.0, 0.1 for a new identity
CalculateFrequencyScore(map, pattern_id) ==
    IF HasEntry(map, pattern_id)
    THEN Min(GetEntry(map, pattern_id).usage_count * 10, 1000)
    ELSE 100

\* exp(-d / 7) in thousandths, for d = 0, 1, 2, ... days
ExpDecay ==
    <<1000, 867, 751, 651, 565, 490, 424, 368, 319, 276, 240, 208, 180, 156, 135,
      117, 102, 88, 76, 66, 57, 50, 43, 37, 32, 28, 24, 21, 18, 16, 14>>

\* calculate_recency_score: exp(-days_old / 7), 1.0 for a new identity
CalculateRecencyScore(map, pattern_id, current_time) ==
    IF HasEntry(map, pattern_id)
    THEN LET time_diff == current_time - GetEntry(map, pattern_id).last_updated
             days_old == time_diff \div SecondsPerDay
         IN  ExpDecay[Min(days_old, Len(ExpDecay) - 1) + 1]
    ELSE 1000

\* calculate_context_score without the project boost
CalculateContextScoreWithoutProject(pattern_id, context) ==
    IF \E i \in 1..Len(context.recent_patterns) :
           Contains(context.recent_patterns[i], pattern_id)
    THEN 800 ELSE 500

\* calculate_context_score
CalculateContextScore(pattern_id, context) ==
    LET recent == IF \E i \in 1..Len(context.recent_patterns) :
                         Contains(context.recent_patterns[i], pattern_id)
                  THEN 300 ELSE 0
        project == IF Contains(pattern_id, context.project_context) THEN 200 ELSE 0
    IN  Min(500 + recent + project, 1000)

\* calculate_user_preference_score: (0.5 + 0.3).min(1.0), whatever the behaviour
CalculateUserPreferenceScore(pattern_id, user_behavior) == Min(500 + 300, 1000)

\* a PatternScore with the recency and the frequency sub-scores in each other's field
NewPatternScoreSwapped(map, pattern_id, relevance, confidence, context, t) ==
    [pattern_id |-> pattern_id,
     relevance_score |-> relevance,
     confidence_score |-> confidence,
     frequency_score |-> CalculateRecencyScore(map, pattern_id, t),
     recency_score |-> CalculateFrequencyScore(map, pattern_id),
     context_score |-> CalculateContextScore(pattern_id, context),
     user_preference_score |-> 0,
     composite_score |-> 0,
     last_updated |-> t,
     usage_count |-> 1]

\* one PatternScore as the score_*_patterns functions push it
NewPatternScore(map, pattern_id, relevance, confidence, context, t) ==
    [pattern_id |-> pattern_id,
     relevance_score |-> relevance,
     confidence_score |-> confidence,
     frequency_score |-> CalculateFrequencyScore(map, pattern_id),
     recency_score |-> CalculateRecencyScore(map, pattern_id, t),
     context_score |-> CalculateContextScore(pattern_id, context),
     user_preference_score |-> 0,
     composite_score |-> 0,
     last_updated |-> t,
     usage_count |-> 1]

\* score_naming_patterns: function naming, then variable naming
ScoreNamingPatterns(map, p, context, t) ==
    << NewPatternScore(map, FunctionNamingId(p),
                       CalculateStyleRelevance(p.function_naming, context), 80, context, t),
       NewPatternScore(map, VariableNamingId(p),
                       CalculateStyleRelevance(p.variable_naming, context), 80, context, t) >>

\* score_style_patterns: indentation, then brace style
ScoreStylePatterns(map, p, context, t) ==
    << NewPatternScore(map, IndentationId(p), 800, 90, context, t),
       NewPatternScore(map, BraceStyleId(p), 800, 90, context, t) >>

\* score_structural_patterns: function length
ScoreStructuralPatterns(map, p, context, t) ==
    << NewPatternScore(map, FunctionLengthId(p), 800, 85, context, t) >>

\* apply_user_behavior_scoring
ApplyUserBehaviorScoring(scored, user_behavior) ==
    [i \in 1..Len(scored) |->
        [scored[i] EXCEPT !.user_preference_score =
            CalculateUserPreferenceScore(scored[i].pattern_id, user_behavior)]]

\* the composite of one pattern under a configuration
Composite(ps, config) ==
    (ps.recency_score * config.recency_weight
     + ps.frequency_score * config.frequency_weight
     + ps.context_score * config.context_weight
     + ps.user_preference_score * config.user_preference_weight) * ps.confidence_score

\* calculate_composite_scores without the multiplication by the confidence
CalculateCompositeScoresUnscaled(scored, config) ==
    [i \in 1..Len(scored) |->
        [scored[i] EXCEPT !.composite_score =
            Composite([scored[i] EXCEPT !.confidence_score = 100], config)]]

\* calculate_composite_scores
CalculateCompositeScores(scored, config) ==
    [i \in 1..Len(scored) |-> [scored[i] EXCEPT !.composite_score = Composite(scored[i], config)]]

\* an ascending sort followed by reverse(): descending, equal elements end up reversed
RECURSIVE InsertByCompositeReversingTies(_, _)
InsertByCompositeReversingTies(sorted, x) ==
    IF sorted = <<>> THEN <<x>>
    ELSE IF Head(sorted).composite_score > x.composite_score
         THEN <<Head(sorted)>> \o InsertByCompositeReversingTies(Tail(sorted), x)
         ELSE <<x>> \o sorted

\* Vec::sort_by with b.composite.partial_cmp(a.composite): a stable sort, descending
\* by composite; elements that compare equal keep their order.
RECURSIVE InsertByComposite(_, _)
InsertByComposite(sorted, x) ==
    IF sorted = <<>> THEN <<x>>
    ELSE IF Head(sorted).composite_score >= x.composite_score
         THEN <<Head(sorted)>> \o InsertByComposite(Tail(sorted), x)
         ELSE <<x>> \o sorted

RECURSIVE SortByComposite(_)
SortByComposite(scored) ==
    IF scored = <<>> THEN <<>>
    ELSE InsertByComposite(SortByComposite(SubSeq(scored, 1, Len(scored) - 1)),
                           scored[Len(scored)])

\* update_historical_patterns with insert() in place of entry(): the map gets the
\* pattern of this request as a fresh record that carries the old count on
UpdateEntryReplacing(map, pattern, t) ==
    LET old == IF HasEntry(map, pattern.pattern_id)
               THEN GetEntry(map, pattern.pattern_id)
               ELSE pattern
        fresh == [pattern EXCEPT !.usage_count = old.usage_count + 1, !.last_updated = t]
    IN  (map \ {old}) \cup {fresh}

\* one iteration of update_historical_patterns: entry(id).or_insert_with(clone), then
\* usage_count += 1, last_updated = now, composite_score = pattern.composite_score
UpdateEntry(map, pattern, t) ==
    LET entry == IF HasEntry(map, pattern.pattern_id)
                 THEN GetEntry(map, pattern.pattern_id)
                 ELSE pattern
        updated == [entry EXCEPT !.usage_count = entry.usage_count + 1,
                                 !.last_updated = t,
                                 !.composite_score = pattern.composite_score]
    IN  (map \ {entry}) \cup {updated}

\* update_historical_patterns
RECURSIVE UpdateHistoricalPatterns(_, _, _)
UpdateHistoricalPatterns(map, scored, t) ==
    IF scored = <<>> THEN map
    ELSE UpdateHistoricalPatterns(UpdateEntry(map, Head(scored), t), Tail(scored), t)

\* score_patterns up to the sort: the scored_patterns it returns
ScoredPatterns(map, config, p, user_behavior, context, t) ==
    SortByComposite(
        CalculateCompositeScores(
            ApplyUserBehaviorScoring(
                ScoreNamingPatterns(map, p, context, t)
                \o ScoreStylePatterns(map, p, context, t)
                \o ScoreStructuralPatterns(map, p, context, t),
                user_behavior),
            config))

(***************************************************************************)
(* The operations of PatternScoringEngine.                                  *)
(***************************************************************************)
\* who may have a request under way
Requesters == {"r1", "r2"}

\* a requester with no request under way
IdleCall == [pc |-> "idle", scored |-> <<>>, i |-> 0, count |-> 0, before |-> {}]

\* what score_patterns is called with and what the history holds for it
ScoringRequest(p, context) ==
    [patterns |-> p, context |-> context, at |-> now, config |-> scoring_config,
     tracked |-> {e.pattern_id : e \in historical_patterns},
     fresh |-> {e.pattern_id : e \in {h \in historical_patterns : h.last_updated = now}},
     repeats |-> /\ requests >= 1
                 /\ scoring_request.patterns = p
                 /\ scoring_request.context = context
                 /\ scoring_request.config = scoring_config
                 /\ scoring_request.at = now,
     settled_before |-> scoring_request.tracked \cap scoring_request.fresh]

\* the log with the frequency sub-scores of a call's scored patterns added
LogFrequencies(log, scored) ==
    [id \in DOMAIN log \cup {scored[i].pattern_id : i \in 1..Len(scored)} |->
        (IF id \in DOMAIN log THEN log[id] ELSE <<>>)
          \o [i \in 1..Cardinality({k \in 1..Len(scored) : scored[k].pattern_id = id}) |->
                 scored[CHOOSE k \in 1..Len(scored) : scored[k].pattern_id = id].frequency_score]]

\* score_patterns(patterns, user_behavior, context)
ScorePatterns(p, context) ==
    /\ requests < MaxRequests
    /\ \E scored \in {ScoredPatterns(historical_patterns, scoring_config, p,
                                    "default", context, now)} :
           /\ historical_patterns' = UpdateHistoricalPatterns(historical_patterns, scored, now)
           /\ scoring_result' = scored
           /\ scored_ids' = scored_ids \cup {scored[i].pattern_id : i \in 1..Len(scored)}
           /\ frequency_log' = LogFrequencies(frequency_log, scored)
    /\ scoring_request' = ScoringRequest(p, context)
    /\ requests' = requests + 1
    /\ UNCHANGED <<now, scoring_config, filterState, frontState, toolState, concState>>

\* update_scoring_config written as with_config is: a new, empty history
UpdateScoringConfigResetting(new_config) ==
    /\ scoring_config' = new_config
    /\ historical_patterns' = {}
    /\ UNCHANGED <<now, scoring_result, scoring_request, requests, scored_ids,
                   filterState, frontState, sideState, concState>>

\* update_scoring_config(new_config)
UpdateScoringConfig(new_config) ==
    /\ scoring_config' = new_config
    /\ UNCHANGED <<now, historical_patterns, scoring_result, scoring_request,
                   requests, scored_ids, filterState, frontState, sideState, concState>>

\* get_top_patterns(scored_result, n): the Vec it returns
TopPatterns(scored_patterns, n) == Take(scored_patterns, n)

\* filter_by_confidence(scored_result, threshold): the Vec it returns
PatternsByConfidence(scored_patterns, threshold) ==
    SelectSeq(scored_patterns, LAMBDA ps : ps.confidence_score >= threshold)

\* get_top_patterns takes &self: it returns a Vec to its caller and writes nothing
GetTopPatterns(n) ==
    /\ Len(TopPatterns(scoring_result, n)) >= 0
    /\ UNCHANGED vars

\* filter_by_confidence takes &self: it returns a Vec to its caller and writes nothing
FilterByConfidence(threshold) ==
    /\ Len(PatternsByConfidence(scoring_result, threshold)) >= 0
    /\ UNCHANGED vars

\* the clock moves on between two calls, here by whole days
AdvanceDays(d) ==
    /\ now + d * SecondsPerDay <= MaxDays * SecondsPerDay
    /\ now' = now + d * SecondsPerDay
    /\ UNCHANGED <<scoringState, filterState, frontState, sideState, concState>>

Next ==
    \/ \E p \in PatternAnalyses, context \in ScoringContexts : ScorePatterns(p, context)
    \/ \E new_config \in ScoringConfigurations : UpdateScoringConfig(new_config)
    \/ \E n \in {MaxTop} : GetTopPatterns(n)
    \/ \E threshold \in {85} : FilterByConfidence(threshold)
    \/ \E d \in {7} : AdvanceDays(d)

\* SuggestionConfiguration::default(); the threshold in hundredths
DefaultSuggestionConfiguration ==
    [max_suggestions |-> 10,
     confidence_threshold |-> 60,
     context_window_size |-> 50,
     prioritize_user_patterns |-> TRUE,
     enable_refactoring_suggestions |-> TRUE,
     suggestion_types |-> <<"CodeCompletion", "VariableNaming", "FunctionSignature",
                            "StyleImprovement">>]

\* SessionData::new, the fields the tracking calls write
NewSessionData ==
    [languages_used |-> <<>>, lines_written |-> 0, keystrokes |-> 0,
     suggestions_accepted |-> 0, suggestions_rejected |-> 0]

\* PrivacySettings::default, the field the tracker reads
DefaultPrivacySettings == [data_collection_enabled |-> TRUE]

\* the engine after CodeWhispererEngine::new, a new tracker and a new cache
Init ==
    /\ now = 0
    /\ scoring_config = DefaultScoringConfiguration
    /\ historical_patterns = {}
    /\ scoring_result = <<>>
    /\ scoring_request = [patterns |-> <<>>, context |-> <<>>, at |-> 0,
                          config |-> DefaultScoringConfiguration,
                          tracked |-> {}, fresh |-> {},
                          repeats |-> FALSE, settled_before |-> {}]
    /\ requests = 0
    /\ scored_ids = {}
    /\ context_cache = <<>>
    /\ preference_cache = <<>>
    /\ project_cache = <<>>
    /\ cache_reads = <<>>
    /\ advances = 0
    /\ filter_trace = <<>>
    /\ borrow = "none"
    /\ calls = [r \in Requesters |-> IdleCall]
    /\ audit = <<>>
    /\ parse_trace = <<>>
    /\ generation_trace = <<>>
    /\ suggestion_config = DefaultSuggestionConfiguration
    /\ analysis_trace = <<>>
    /\ session_data = NewSessionData
    /\ privacy_settings = DefaultPrivacySettings
    /\ wasm_cache = <<>>
    /\ access_count = <<>>
    /\ max_size = MaxCacheSize
    /\ frequency_log = <<>>

Spec == Init /\ [][Next]_vars

(***************************************************************************)
(* Properties of the scoring engine.                                        *)
(***************************************************************************)
\* the step is a score_patterns call
ScoreStep == requests' = requests + 1

EntriesOf(map, pattern_id) == {e \in map : e.pattern_id = pattern_id}

ResultIds(scored) == [i \in 1..Len(scored) |-> scored[i].pattern_id]

\* C1: every identity that has ever been scored has exactly one record in the
\* historical map, whatever engine operations followed its scoring, and the map
\* holds no record of anything else.
C1_OneRecordPerScoredIdentity ==
    /\ \A id \in scored_ids : Cardinality(EntriesOf(historical_patterns, id)) = 1
    /\ \A e \in historical_patterns : e.pattern_id \in scored_ids

\* C1 witness: an identity scored more than once, with the configuration changed
\* and the clock advanced since the engine was made
C1_Witness ==
    /\ \E e \in historical_patterns : e.usage_count >= 3
    /\ scoring_config # DefaultScoringConfiguration
    /\ now > 0
    /\ Cardinality(scored_ids) > 5

\* C2: a score_patterns call updates the record of every identity it scores in
\* place: usage_count one more than the record had (the record of a New identity
\* starts as the pattern pushed in this call, whose count is 1), last_updated the
\* time of the call, composite_score the composite of this call, every other
\* field as the record had it.
C2_RecordUpdatedInPlace ==
    [][ScoreStep =>
        \A i \in 1..Len(scoring_result') :
            LET pattern == scoring_result'[i]
                before == IF HasEntry(historical_patterns, pattern.pattern_id)
                          THEN GetEntry(historical_patterns, pattern.pattern_id)
                          ELSE pattern
            IN  EntriesOf(historical_patterns', pattern.pattern_id) =
                    { [before EXCEPT !.usage_count = before.usage_count + 1,
                                     !.last_updated = scoring_request'.at,
                                     !.composite_score = pattern.composite_score] }
       ]_scoringVars

\* C2 witness: the last call scored a Tracked identity whose record keeps sub-scores
\* of its first scoring that differ from the ones computed in the call
C2_Witness ==
    \E i \in 1..Len(scoring_result) :
        /\ HasEntry(historical_patterns, scoring_result[i].pattern_id)
        /\ LET e == GetEntry(historical_patterns, scoring_result[i].pattern_id)
           IN  /\ e.usage_count >= 3
               /\ e.frequency_score # scoring_result[i].frequency_score
               /\ e.context_score # scoring_result[i].context_score
               /\ e.last_updated = scoring_request.at
               /\ e.composite_score = scoring_result[i].composite_score

\* two consecutive score_patterns calls with the same pattern set, context and
\* configuration and no time elapsed between them
SameRequestAgain ==
    /\ ScoreStep
    /\ requests >= 1
    /\ scoring_request'.patterns = scoring_request.patterns
    /\ scoring_request'.context = scoring_request.context
    /\ scoring_request'.config = scoring_request.config
    /\ scoring_request'.at = scoring_request.at

PositionOf(scored, pattern_id) == CHOOSE i \in 1..Len(scored) : scored[i].pattern_id = pattern_id

\* the identities of the first call that were Tracked before it, last updated at
\* the time of the call, and used fewer than 100 times
SettledBefore(request, map) ==
    {id \in request.tracked \cap request.fresh : GetEntry(map, id).usage_count - 1 < 100}

TokenOrder ==
    <<"20", "4", "CamelCase", "SameLine", "SnakeCase", "Spaces", "brace", "function",
      "indentation", "length", "naming", "style", "variable">>

TokenRank(token) == CHOOSE i \in 1..Len(TokenOrder) : TokenOrder[i] = token

\* a < b as strings: at the first token where they differ, a has the smaller one
IdentityLess(a, b) ==
    \E k \in 1..Min(Len(a), Len(b)) :
        /\ SubSeq(a, 1, k - 1) = SubSeq(b, 1, k - 1)
        /\ TokenRank(a[k]) < TokenRank(b[k])

\* C4 as stated: the returned list is ordered descending by composite, then
\* descending by confidence, then by identity string.
C4_OrderedByCompositeConfidenceIdentity ==
    \A i, j \in 1..Len(scoring_result) :
        i < j =>
            LET x == scoring_result[i]
                y == scoring_result[j]
            IN  \/ x.composite_score > y.composite_score
                \/ /\ x.composite_score = y.composite_score
                   /\ x.confidence_score > y.confidence_score
                \/ /\ x.composite_score = y.composite_score
                   /\ x.confidence_score = y.confidence_score
                   /\ IdentityLess(x.pattern_id, y.pattern_id)

\* the place of an identity in the order in which score_patterns produces them:
\* function naming, variable naming, indentation, brace style, function length
ProductionIndex(pattern_id) ==
    CASE pattern_id[1] = "function" /\ pattern_id[2] = "naming" -> 1
      [] pattern_id[1] = "variable" -> 2
      [] pattern_id[1] = "indentation" -> 3
      [] pattern_id[1] = "brace" -> 4
      [] pattern_id[1] = "function" /\ pattern_id[2] = "length" -> 5

\* C4 amended: the returned list is ordered descending by composite, and patterns
\* of equal composite are in the order in which score_patterns produced them.
C4_OrderedByCompositeThenProduction ==
    \A i, j \in 1..Len(scoring_result) :
        i < j =>
            LET x == scoring_result[i]
                y == scoring_result[j]
            IN  \/ x.composite_score > y.composite_score
                \/ /\ x.composite_score = y.composite_score
                   /\ ProductionIndex(x.pattern_id) < ProductionIndex(y.pattern_id)

\* C4 witness: a returned list with a tie in composite and with a pattern ranked
\* above one that was produced before it
C4_Witness ==
    /\ \E i, j \in 1..Len(scoring_result) :
          /\ i < j
          /\ scoring_result[i].composite_score = scoring_result[j].composite_score
    /\ \E i, j \in 1..Len(scoring_result) :
          /\ i < j
          /\ scoring_result[i].composite_score > scoring_result[j].composite_score
          /\ ProductionIndex(scoring_result[i].pattern_id)
               > ProductionIndex(scoring_result[j].pattern_id)

(***************************************************************************)
(* The context-aware filter.  Texts are sequences of characters.            *)
(***************************************************************************)
LowercaseLetters ==
    {"a", "b", "c", "d", "e", "f", "g", "h", "i", "j", "k", "l", "m",
     "n", "o", "p", "q", "r", "s", "t", "u", "v", "w", "x", "y", "z"}

UppercaseLetters ==
    {"A", "B", "C", "D", "E", "F", "G", "H", "I", "J", "K", "L", "M",
     "N", "O", "P", "Q", "R", "S", "T", "U", "V", "W", "X", "Y", "Z"}

Digits == {"0", "1", "2", "3", "4", "5", "6", "7", "8", "9"}

\* char::is_whitespace, on the characters the texts use
IsWhitespace(c) == c \in {" ", "\n", "\t", "\r"}

\* text.chars().filter(|&c| c == ch).count()
CountChar(text, ch) == Cardinality({i \in 1..Len(text) : text[i] = ch})

\* text.trim().is_empty()
IsBlank(text) == \A i \in 1..Len(text) : IsWhitespace(text[i])

\* text.chars().filter(|c| !c.is_whitespace()).collect::<String>()
StripWhitespace(text) == SelectSeq(text, LAMBDA c : ~IsWhitespace(c))

\* text.trim_start()
RECURSIVE TrimStart(_)
TrimStart(text) ==
    IF text # <<>> /\ IsWhitespace(Head(text)) THEN TrimStart(Tail(text)) ELSE text

\* text.starts_with(prefix)
StartsWith(text, prefix) ==
    Len(prefix) <= Len(text) /\ SubSeq(text, 1, Len(prefix)) = prefix

\* text.split_whitespace().count(): the runs of characters that are not whitespace
WordCount(text) ==
    Cardinality({i \in 1..Len(text) :
                    /\ ~IsWhitespace(text[i])
                    /\ (i = 1 \/ IsWhitespace(text[i - 1]))})

\* text.lines().count(): a final line terminator opens no further line
LineCount(text) ==
    CountChar(text, "\n") + (IF text # <<>> /\ text[Len(text)] # "\n" THEN 1 ELSE 0)

\* FilterConfiguration::default, the two fields the filter reads
MinQualityThreshold == 60

MaxSuggestionsPerContext == 10

\* the lifetimes of the three caches, in seconds
ContextTtl == 300

PreferenceTtl == 86400

ProjectTtl == 3600

\* is_contextually_relevant
IsContextuallyRelevant(suggestion, context) ==
    CASE context.current_context_type = "FunctionDefinition" ->
             suggestion.suggestion_type \in {"VariableNaming", "CodeCompletion"}
      [] context.current_context_type = "VariableDeclaration" ->
             suggestion.suggestion_type \in {"VariableNaming", "CodeCompletion"}
      [] context.current_context_type = "ClassDefinition" ->
             suggestion.suggestion_type \in {"CodeCompletion", "VariableNaming"}
      [] context.current_context_type = "ImportStatement" ->
             suggestion.suggestion_type \in {"CodeCompletion"}
      [] context.current_context_type = "General" -> TRUE

\* filter_by_context_relevance
FilterByContextRelevance(suggestions, context) ==
    SelectSeq(suggestions, LAMBDA x : IsContextuallyRelevant(x, context))

\* matches_naming_convention
MatchesNamingConvention(text, convention) ==
    CASE convention = "CamelCase" ->
             /\ text # <<>> /\ Head(text) \in LowercaseLetters
             /\ \E i \in 1..Len(text) : text[i] \in UppercaseLetters
      [] convention = "SnakeCase" ->
             \A i \in 1..Len(text) : text[i] \in LowercaseLetters \cup {"_"} \cup Digits
      [] convention = "PascalCase" ->
             text # <<>> /\ Head(text) \in UppercaseLetters
      [] convention = "KebabCase" ->
             \A i \in 1..Len(text) : text[i] \in LowercaseLetters \cup {"-"} \cup Digits

\* calculate_verbosity
CalculateVerbosity(text) ==
    IF WordCount(text) <= 3 THEN "Concise"
    ELSE IF WordCount(text) <= 8 THEN "Moderate"
    ELSE "Verbose"

\* matches_verbosity_preference
MatchesVerbosityPreference(suggestion_verbosity, preference) ==
    CASE preference = "PreferConcise" -> suggestion_verbosity = "Concise"
      [] preference = "PreferModerate" -> suggestion_verbosity \in {"Concise", "Moderate"}
      [] preference = "PreferVerbose" -> TRUE

\* matches_code_style; the optional naming convention is a name or "None"
MatchesCodeStyle(suggestion, style_prefs) ==
    /\ style_prefs.naming_convention # "None" =>
           MatchesNamingConvention(suggestion.suggested_code, style_prefs.naming_convention)
    /\ MatchesVerbosityPreference(CalculateVerbosity(suggestion.suggested_code),
                                  style_prefs.verbosity_preference)

\* matches_user_preferences; the optional style preferences are a sequence of
\* at most one record
MatchesUserPreferences(suggestion, preferences) ==
    /\ ~(suggestion.confidence_score < preferences.min_confidence_threshold)
    /\ preferences.preferred_suggestion_types # <<>> =>
           suggestion.suggestion_type \in Range(preferences.preferred_suggestion_types)
    /\ preferences.code_style_preferences # <<>> =>
           MatchesCodeStyle(suggestion, preferences.code_style_preferences[1])

\* filter_by_preferences
FilterByPreferences(suggestions, preferences) ==
    SelectSeq(suggestions, LAMBDA x : MatchesUserPreferences(x, preferences))

\* matches_architectural_patterns: a placeholder that accepts everything
MatchesArchitecturalPatterns(suggestion, patterns) == TRUE

\* estimate_suggestion_complexity
EstimateSuggestionComplexity(suggestion) ==
    LET line_count == LineCount(suggestion.suggested_code)
        has_nested_structures == /\ CountChar(suggestion.suggested_code, "{") > 0
                                 /\ CountChar(suggestion.suggested_code, "}") > 0
    IN  IF line_count <= 3 /\ ~has_nested_structures THEN "Simple"
        ELSE IF line_count <= 10 THEN "Moderate"
        ELSE "Complex"

\* matches_complexity_level
MatchesComplexityLevel(suggestion, project_complexity) ==
    CASE project_complexity = "Simple" ->
             EstimateSuggestionComplexity(suggestion) = "Simple"
      [] project_complexity = "Moderate" ->
             EstimateSuggestionComplexity(suggestion) \in {"Simple", "Moderate"}
      [] project_complexity = "Complex" -> TRUE

\* is_project_compatible
IsProjectCompatible(suggestion, project) ==
    /\ project.architectural_patterns # <<>> =>
           MatchesArchitecturalPatterns(suggestion, project.architectural_patterns)
    /\ MatchesComplexityLevel(suggestion, project.complexity_level)

\* filter_by_project_compatibility
FilterByProjectCompatibility(suggestions, project) ==
    SelectSeq(suggestions, LAMBDA x : IsProjectCompatible(x, project))

\* has_obvious_syntax_errors, counting braces only
HasObviousSyntaxErrorsInBraces(text) ==
    CountChar(text, "{") # CountChar(text, "}")

\* has_obvious_syntax_errors
HasObviousSyntaxErrors(text) ==
    \/ CountChar(text, "{") # CountChar(text, "}")
    \/ CountChar(text, "(") # CountChar(text, ")")

\* meets_quality_standards
MeetsQualityStandards(suggestion) ==
    /\ ~(suggestion.confidence_score < MinQualityThreshold)
    /\ ~IsBlank(suggestion.suggested_code)
    /\ ~HasObviousSyntaxErrors(suggestion.suggested_code)

\* filter_by_quality_metrics
FilterByQualityMetrics(suggestions) ==
    SelectSeq(suggestions, LAMBDA x : MeetsQualityStandards(x))

\* calculate_suggestion_pattern_hash, hashing the text as it stands
CalculateSuggestionPatternHashUnstripped(suggestion) ==
    <<suggestion.suggestion_type, suggestion.suggested_code>>

\* calculate_suggestion_pattern_hash: the hashed pair stands for its 64-bit hash
\* (two different pairs are taken to hash differently)
CalculateSuggestionPatternHash(suggestion) ==
    <<suggestion.suggestion_type, StripWhitespace(suggestion.suggested_code)>>

\* the loop of filter_for_diversity, testing the limit with > instead of >=
RECURSIVE DiversityLoopPastLimit(_, _, _, _)
DiversityLoopPastLimit(suggestions, i, diverse_suggestions, seen_patterns) ==
    IF i > Len(suggestions) THEN diverse_suggestions
    ELSE LET pattern_hash == <<suggestions[i].suggestion_type,
                               StripWhitespace(suggestions[i].suggested_code)>>
         IN  IF pattern_hash \notin seen_patterns
             THEN IF Len(diverse_suggestions) + 1 > MaxSuggestionsPerContext
                  THEN Append(diverse_suggestions, suggestions[i])
                  ELSE DiversityLoopPastLimit(suggestions, i + 1,
                                              Append(diverse_suggestions, suggestions[i]),
                                              seen_patterns \cup {pattern_hash})
             ELSE DiversityLoopPastLimit(suggestions, i + 1, diverse_suggestions,
                                         seen_patterns)

\* the loop of filter_for_diversity from suggestion i on
RECURSIVE DiversityLoop(_, _, _, _)
DiversityLoop(suggestions, i, diverse_suggestions, seen_patterns) ==
    IF i > Len(suggestions) THEN diverse_suggestions
    ELSE LET pattern_hash == CalculateSuggestionPatternHash(suggestions[i])
         IN  IF pattern_hash \notin seen_patterns
             THEN IF Len(diverse_suggestions) + 1 >= MaxSuggestionsPerContext
                  THEN Append(diverse_suggestions, suggestions[i])
                  ELSE DiversityLoop(suggestions, i + 1,
                                     Append(diverse_suggestions, suggestions[i]),
                                     seen_patterns \cup {pattern_hash})
             ELSE DiversityLoop(suggestions, i + 1, diverse_suggestions, seen_patterns)

\* filter_for_diversity
FilterForDiversity(suggestions) == DiversityLoop(suggestions, 1, <<>>, {})

\* apply_filters from the quality stage's output on
ThenDiversity(by_context, by_preferences, by_project, by_quality) ==
    <<by_context, by_preferences, by_project, by_quality, FilterForDiversity(by_quality)>>

\* apply_filters from the project stage's output on
ThenQuality(by_context, by_preferences, by_project) ==
    ThenDiversity(by_context, by_preferences, by_project,
                  FilterByQualityMetrics(by_project))

\* apply_filters from the preference stage's output on
ThenProject(by_context, by_preferences, project) ==
    ThenQuality(by_context, by_preferences,
                FilterByProjectCompatibility(by_preferences, project))

\* apply_filters from the context stage's output on
ThenPreferences(by_context, preferences, project) ==
    ThenProject(by_context, FilterByPreferences(by_context, preferences), project)

\* apply_filters: the output of each of the five stages, in order
ApplyFilters(suggestions, context, preferences, project) ==
    ThenPreferences(FilterByContextRelevance(suggestions, context), preferences, project)

\* RankingWeights::default, in hundredths
DefaultRankingWeights ==
    [confidence_weight |-> 40, context_weight |-> 30, preference_weight |-> 20,
     recency_weight |-> 10]

\* calculate_context_relevance: both alignment checks are placeholders that hold
CalculateContextRelevance(suggestion, context) == Min(50 + 30 + 20, 100)

\* calculate_preference_alignment
CalculatePreferenceAlignment(suggestion, preferences) ==
    Min(50
        + (IF suggestion.suggestion_type \in Range(preferences.preferred_suggestion_types)
           THEN 30 ELSE 0)
        + (IF suggestion.confidence_score >= preferences.min_confidence_threshold
           THEN 20 ELSE 0),
        100)

\* calculate_recency_bonus: a placeholder
CalculateRecencyBonus(suggestion) == 0

\* calculate_ranking_score, in units of 10^-4
CalculateRankingScore(suggestion, context, preferences) ==
    suggestion.confidence_score * DefaultRankingWeights.confidence_weight
    + CalculateContextRelevance(suggestion, context) * DefaultRankingWeights.context_weight
    + CalculatePreferenceAlignment(suggestion, preferences)
        * DefaultRankingWeights.preference_weight
    + CalculateRecencyBonus(suggestion) * DefaultRankingWeights.recency_weight

\* the stable sort of rank_suggestions on (suggestion, score) pairs, highest
\* score first
RECURSIVE InsertByRankingScore(_, _)
InsertByRankingScore(sorted, pair) ==
    IF sorted = <<>> THEN <<pair>>
    ELSE IF Head(sorted)[2] >= pair[2]
         THEN <<Head(sorted)>> \o InsertByRankingScore(Tail(sorted), pair)
         ELSE <<pair>> \o sorted

RECURSIVE SortByRankingScore(_)
SortByRankingScore(pairs) ==
    IF pairs = <<>> THEN <<>>
    ELSE InsertByRankingScore(SortByRankingScore(SubSeq(pairs, 1, Len(pairs) - 1)),
                              pairs[Len(pairs)])

\* the first components of a sequence of pairs
Firsts(pairs) == [i \in 1..Len(pairs) |-> pairs[i][1]]

\* rank_suggestions, leaving each suggestion's ranking score in its confidence
RankSuggestionsStoringScore(suggestions, context, preferences) ==
    LET sorted == SortByRankingScore(
                      [i \in 1..Len(suggestions) |->
                          <<suggestions[i],
                            CalculateRankingScore(suggestions[i], context, preferences)>>])
    IN  [i \in 1..Len(sorted) |->
            [sorted[i][1] EXCEPT !.confidence_score = sorted[i][2] \div 100]]

\* rank_suggestions
RankSuggestions(suggestions, context, preferences) ==
    Firsts(SortByRankingScore(
        [i \in 1..Len(suggestions) |->
            <<suggestions[i],
              CalculateRankingScore(suggestions[i], context, preferences)>>]))

(***************************************************************************)
(* The three caches of the filter.  A HashMap is the function from the     *)
(* keys it holds to their entries.                                          *)
(***************************************************************************)
\* HashMap::insert
Insert(cache, key, entry) ==
    [k \in DOMAIN cache \cup {key} |-> IF k = key THEN entry ELSE cache[k]]

\* generate_context_cache_key: the four formatted fields, in order
GenerateContextCacheKey(context) ==
    <<context.file_path, context.cursor_position.row,
      context.cursor_position.column, Len(context.current_line)>>

\* determine_context_type
DetermineContextType(context) ==
    LET line == TrimStart(context.current_line)
    IN  IF \/ StartsWith(line, <<"f", "u", "n", "c", "t", "i", "o", "n">>)
           \/ StartsWith(line, <<"d", "e", "f", " ">>)
           \/ StartsWith(line, <<"f", "n", " ">>)
        THEN "FunctionDefinition"
        ELSE IF \/ StartsWith(line, <<"l", "e", "t", " ">>)
                \/ StartsWith(line, <<"v", "a", "r", " ">>)
                \/ StartsWith(line, <<"c", "o", "n", "s", "t", " ">>)
        THEN "VariableDeclaration"
        ELSE IF \/ StartsWith(line, <<"c", "l", "a", "s", "s", " ">>)
                \/ StartsWith(line, <<"s", "t", "r", "u", "c", "t", " ">>)
        THEN "ClassDefinition"
        ELSE IF \/ StartsWith(line, <<"i", "m", "p", "o", "r", "t", " ">>)
                \/ StartsWith(line, <<"f", "r", "o", "m", " ">>)
                \/ StartsWith(line, <<"u", "s", "e", " ">>)
        THEN "ImportStatement"
        ELSE "General"

\* perform_context_analysis: the fields the filter reads
PerformContextAnalysis(context, at) ==
    [current_context_type |-> DetermineContextType(context),
     analysis_timestamp |-> at]

\* is_analysis_stale, with the lifetime taken in hours instead of minutes
IsAnalysisStaleAfterHours(analysis, at) ==
    at - analysis.analysis_timestamp > 60 * ContextTtl

\* is_analysis_stale
IsAnalysisStale(analysis, at) ==
    at - analysis.analysis_timestamp > ContextTtl

\* analyze_context, clearing every stale entry when it recomputes one
AnalyzeContextSweeping(cache, context, at) ==
    LET cache_key == GenerateContextCacheKey(context)
        kept == {k \in DOMAIN cache : ~IsAnalysisStale(cache[k], at)}
    IN  IF cache_key \in DOMAIN cache /\ ~IsAnalysisStale(cache[cache_key], at)
        THEN [cache |-> cache, value |-> cache[cache_key], computed |-> FALSE]
        ELSE [cache |-> Insert([k \in kept |-> cache[k]], cache_key,
                               PerformContextAnalysis(context, at)),
              value |-> PerformContextAnalysis(context, at),
              computed |-> TRUE]

\* analyze_context: the cache afterwards, the analysis returned, and whether
\* perform_context_analysis ran
AnalyzeContext(cache, context, at) ==
    LET cache_key == GenerateContextCacheKey(context)
    IN  IF cache_key \in DOMAIN cache /\ ~IsAnalysisStale(cache[cache_key], at)
        THEN [cache |-> cache, value |-> cache[cache_key], computed |-> FALSE]
        ELSE [cache |-> Insert(cache, cache_key, PerformContextAnalysis(context, at)),
              value |-> PerformContextAnalysis(context, at),
              computed |-> TRUE]

\* derive_confidence_threshold with no threshold derived
DeriveConfidenceThresholdNone(behavior) == 0

\* derive_confidence_threshold, in hundredths
DeriveConfidenceThreshold(behavior) == 70

\* derive_preferred_types
DerivePreferredTypes(behavior) == <<"VariableNaming", "CodeCompletion">>

\* derive_code_style_preferences
DeriveCodeStylePreferences(behavior) ==
    << [naming_convention |-> "CamelCase", verbosity_preference |-> "PreferModerate"] >>

\* analyze_behavior_patterns
AnalyzeBehaviorPatterns(behavior, at) ==
    [min_confidence_threshold |-> DeriveConfidenceThreshold(behavior),
     preferred_suggestion_types |-> DerivePreferredTypes(behavior),
     code_style_preferences |-> DeriveCodeStylePreferences(behavior),
     last_updated |-> at]

\* are_preferences_stale
ArePreferencesStale(preferences, at) ==
    at - preferences.last_updated > PreferenceTtl

\* derive_preferences
DerivePreferences(cache, behavior, at) ==
    LET user_key == "default_user"
    IN  IF user_key \in DOMAIN cache /\ ~ArePreferencesStale(cache[user_key], at)
        THEN [cache |-> cache, value |-> cache[user_key], computed |-> FALSE]
        ELSE [cache |-> Insert(cache, user_key, AnalyzeBehaviorPatterns(behavior, at)),
              value |-> AnalyzeBehaviorPatterns(behavior, at),
              computed |-> TRUE]

\* assess_complexity
AssessComplexity(project_info) ==
    IF project_info.file_count < 20 /\ project_info.total_lines_of_code < 1000
    THEN "Simple"
    ELSE IF project_info.file_count < 100 /\ project_info.total_lines_of_code < 10000
    THEN "Moderate"
    ELSE "Complex"

\* determine_project_type; a dependency is one of the names "react", "express",
\* "tokio", "serde", none of which contains another
DetermineProjectType(project_info) ==
    IF "react" \in Range(project_info.dependencies) THEN "WebFrontend"
    ELSE IF "express" \in Range(project_info.dependencies) THEN "WebBackend"
    ELSE IF "tokio" \in Range(project_info.dependencies) THEN "SystemTool"
    ELSE "Library"

\* perform_project_analysis
PerformProjectAnalysis(project_info, at) ==
    [architectural_patterns |-> <<"ModularArchitecture">>,
     available_dependencies |-> project_info.dependencies,
     complexity_level |-> AssessComplexity(project_info),
     project_type |-> DetermineProjectType(project_info),
     analysis_timestamp |-> at]

\* is_project_analysis_stale
IsProjectAnalysisStale(analysis, at) ==
    at - analysis.analysis_timestamp > ProjectTtl

\* analyze_project
AnalyzeProject(cache, project_info, at) ==
    LET cache_key == project_info.project_path
    IN  IF cache_key \in DOMAIN cache /\ ~IsProjectAnalysisStale(cache[cache_key], at)
        THEN [cache |-> cache, value |-> cache[cache_key], computed |-> FALSE]
        ELSE [cache |-> Insert(cache, cache_key, PerformProjectAnalysis(project_info, at)),
              value |-> PerformProjectAnalysis(project_info, at),
              computed |-> TRUE]

\* what one look-up saw and did: the cache, the key, the argument the key was
\* made from, the entry it found (if any), the value it returned and whether
\* it computed that value
CacheRead(name, cache, key, input, result) ==
    [cache |-> name, key |-> key, input |-> input,
     found |-> IF key \in DOMAIN cache THEN <<cache[key]>> ELSE <<>>,
     returned |-> result.value, computed |-> result.computed]

(***************************************************************************)
(* Inputs of the filter.                                                    *)
(***************************************************************************)
\* a CodeSuggestion: the fields the filter reads, and its id
Suggestion(id, suggestion_type, suggested_code, confidence_score) ==
    [id |-> id, suggestion_type |-> suggestion_type,
     suggested_code |-> suggested_code, confidence_score |-> confidence_score]

\* the suggestions the input lists are cut from
Pool ==
    << Suggestion("s1", "VariableNaming", <<"a", "B">>, 90),
       Suggestion("s2", "VariableNaming", <<"a", " ", "B">>, 80),
       Suggestion("s3", "CodeCompletion", <<"a", "B">>, 85),
       Suggestion("s4", "StyleImprovement", <<"a", "B">>, 95),
       Suggestion("s5", "CodeCompletion", <<"a", "b">>, 90),
       Suggestion("s6", "CodeCompletion", <<"a", "B", "(">>, 90),
       Suggestion("s7", "CodeCompletion", <<"a", "B", "{", "}">>, 90),
       Suggestion("s8", "VariableNaming", <<"a", "C">>, 65),
       Suggestion("s9", "VariableNaming", <<"a", "C">>, 75),
       Suggestion("s10", "VariableNaming", <<"a", "D">>, 80),
       Suggestion("s11", "VariableNaming", <<"a", "E">>, 80),
       Suggestion("s12", "VariableNaming", <<"a", "F">>, 80),
       Suggestion("s13", "VariableNaming", <<"a", "G">>, 80),
       Suggestion("s14", "CodeCompletion", <<"a", "C">>, 80),
       Suggestion("s15", "CodeCompletion", <<"a", "D">>, 80),
       Suggestion("s16", "CodeCompletion", <<"a", "E">>, 80),
       Suggestion("s17", "CodeCompletion", <<"a", "F">>, 80),
       Suggestion("s18", "CodeCompletion", <<"a", "G">>, 80),
       Suggestion("s19", "VariableNaming", <<"a", "H">>, 80),
       Suggestion("s20", "CodeCompletion", <<"a", "H">>, 72),
       Suggestion("s21", "CodeCompletion", <<"a", "\n", "H">>, 99),
       Suggestion("s22", "CodeCompletion", <<"a", "J">>, 30),
       Suggestion("s23", "CodeCompletion", <<" ", " ">>, 90) >>

\* len suggestions of the pool from position start on, going round
Window(start, len) ==
    [i \in 1..len |-> Pool[((start + i - 2) % Len(Pool)) + 1]]

\* the suggestion lists given to filter_suggestions
InputLists ==
    {Window(start, len) : start \in 1..Len(Pool), len \in {0, MaxInputLen}}

\* the suggestion lists of the behaviours that watch the caches
ShortInputLists == {Window(1, 4)}

\* CodingContext values
CodingContexts ==
    { [file_path |-> "a.rs", cursor_position |-> [row |-> 0, column |-> 0],
       current_line |-> <<"a", "B", "(", "c", ")">>],
      [file_path |-> "a.rs", cursor_position |-> [row |-> 1, column |-> 0],
       current_line |-> <<"u", "s", "e", " ", "a">>] }

\* a CodingContext with the path, the cursor and the length of the current
\* line of the first of the above, and another current line
SameKeyContext ==
    [file_path |-> "a.rs", cursor_position |-> [row |-> 0, column |-> 0],
     current_line |-> <<"f", "n", " ", "a", "(">>]

\* BehaviorAnalysis values; the preference engine reads none of their fields
BehaviorAnalyses == { [suggestion_feedback |-> "none"] }

\* ProjectInfo values
SmallProject ==
    [project_path |-> "p1", project_name |-> "small", dependencies |-> <<"react">>,
     file_count |-> 5, total_lines_of_code |-> 500]

LargeProject ==
    [project_path |-> "p2", project_name |-> "large",
     dependencies |-> <<"tokio", "serde">>,
     file_count |-> 200, total_lines_of_code |-> 50000]

ProjectInfos == {SmallProject, LargeProject}

\* the steps of the clock between two calls, in seconds
ClockSteps == {ContextTtl, ProjectTtl, PreferenceTtl}

(***************************************************************************)
(* Operations of the filter.                                                *)
(***************************************************************************)
\* ContextAwareFilter::filter_suggestions: what it does to the filter
FilterSuggestionsCall(suggestions, context, user_behavior, project_info) ==
    \E c \in {AnalyzeContext(context_cache, context, now)},
       p \in {DerivePreferences(preference_cache, user_behavior, now)},
       j \in {AnalyzeProject(project_cache, project_info, now)} :
        \E stages \in {ApplyFilters(suggestions, c.value, p.value, j.value)} :
            /\ context_cache' = c.cache
            /\ preference_cache' = p.cache
            /\ project_cache' = j.cache
            /\ cache_reads' =
                   << CacheRead("context", context_cache,
                                GenerateContextCacheKey(context), context, c),
                      CacheRead("preference", preference_cache, "default_user",
                                user_behavior, p),
                      CacheRead("project", project_cache, project_info.project_path, project_info, j) >>
            /\ filter_trace' =
                   << [suggestions |-> suggestions,
                       context_analysis |-> c.value,
                       preferences |-> p.value,
                       project_analysis |-> j.value,
                       stages |-> stages,
                       ranked_suggestions |-> RankSuggestions(stages[5], c.value, p.value)] >>
            /\ UNCHANGED advances

\* ContextAwareFilter::filter_suggestions
FilterSuggestions(suggestions, context, user_behavior, project_info) ==
    /\ FilterSuggestionsCall(suggestions, context, user_behavior, project_info)
    /\ UNCHANGED <<now, scoringState, concState, frontState, sideState>>

\* ContextAnalyzer::analyze_context, called on its own
CallAnalyzeContext(context) ==
    \E c \in {AnalyzeContext(context_cache, context, now)} :
        /\ context_cache' = c.cache
        /\ cache_reads' = << CacheRead("context", context_cache,
                                       GenerateContextCacheKey(context), context, c) >>
        /\ UNCHANGED <<now, scoringState, preference_cache, project_cache,
                       advances, concState, frontState, sideState>>
        /\ filter_trace' = <<>>

\* PreferenceEngine::derive_preferences, called on its own
CallDerivePreferences(behavior) ==
    \E p \in {DerivePreferences(preference_cache, behavior, now)} :
        /\ preference_cache' = p.cache
        /\ cache_reads' = << CacheRead("preference", preference_cache, "default_user",
                                       behavior, p) >>
        /\ UNCHANGED <<now, scoringState, context_cache, project_cache,
                       advances, concState, frontState, sideState>>
        /\ filter_trace' = <<>>

\* ProjectAnalyzer::analyze_project, called on its own
CallAnalyzeProject(project_info) ==
    \E j \in {AnalyzeProject(project_cache, project_info, now)} :
        /\ project_cache' = j.cache
        /\ cache_reads' = << CacheRead("project", project_cache,
                                       project_info.project_path, project_info, j) >>
        /\ UNCHANGED <<now, scoringState, context_cache, preference_cache,
                       advances, concState, frontState, sideState>>
        /\ filter_trace' = <<>>

\* time passes between two calls
Advance(seconds) ==
    /\ advances < MaxAdvances
    /\ now' = now + seconds
    /\ advances' = advances + 1
    /\ cache_reads' = <<>>
    /\ filter_trace' = <<>>
    /\ UNCHANGED <<scoringState, cacheState, concState, frontState, sideState>>

\* behaviours of the filter on many suggestion lists
FilterNext ==
    \E suggestions \in InputLists, context \in CodingContexts,
       user_behavior \in BehaviorAnalyses, project_info \in ProjectInfos :
        FilterSuggestions(suggestions, context, user_behavior, project_info)

FilterSpec == Init /\ [][FilterNext]_vars

\* behaviours of the three caches as time passes
CacheNext ==
    \/ \E suggestions \in ShortInputLists, context \in CodingContexts,
          user_behavior \in BehaviorAnalyses, project_info \in {SmallProject} :
           FilterSuggestions(suggestions, context, user_behavior, project_info)
    \/ \E context \in CodingContexts \cup {SameKeyContext} : CallAnalyzeContext(context)
    \/ \E behavior \in BehaviorAnalyses : CallDerivePreferences(behavior)
    \/ \E project_info \in {SmallProject} : CallAnalyzeProject(project_info)
    \/ \E seconds \in ClockSteps : Advance(seconds)

CacheSpec == Init /\ [][CacheNext]_vars

(***************************************************************************)
(* Properties of the caches.                                                *)
(***************************************************************************)
\* the cache of a given name
CacheOf(name) ==
    CASE name = "context" -> context_cache
      [] name = "preference" -> preference_cache
      [] name = "project" -> project_cache

\* the lifetime of the entries of a cache
TtlOf(name) ==
    CASE name = "context" -> ContextTtl
      [] name = "preference" -> PreferenceTtl
      [] name = "project" -> ProjectTtl

\* the time an entry was computed at
ComputedAt(name, entry) ==
    IF name = "preference" THEN entry.last_updated ELSE entry.analysis_timestamp

\* the age, at the time of a look-up, of the entry the look-up found
AgeFound(r) == now - ComputedAt(r.cache, r.found[1])

\* a look-up that returned the stored entry without computing anything
Served(r) == r.found # <<>> /\ ~r.computed /\ r.returned = r.found[1]

\* C5 as stated: in each of the three caches, a look-up returns a stored entry
\* without recomputation only if the entry's age is strictly less than the
\* cache's lifetime (5 minutes, 1 hour, 24 hours); an entry whose age is equal
\* to or greater than the lifetime is never served.
C5_ServedOnlyBelowTtl ==
    \A i \in DOMAIN cache_reads :
        ~cache_reads[i].computed =>
            /\ Served(cache_reads[i])
            /\ AgeFound(cache_reads[i]) < TtlOf(cache_reads[i].cache)

\* C5 amended: in each of the three caches, a look-up returns a stored entry
\* without recomputation only if the entry's age is at most the cache's
\* lifetime; an entry whose age is greater than the lifetime is never served.
C5_ServedOnlyWithinTtl ==
    \A i \in DOMAIN cache_reads :
        ~cache_reads[i].computed =>
            /\ Served(cache_reads[i])
            /\ AgeFound(cache_reads[i]) <= TtlOf(cache_reads[i].cache)

\* a look-up was served an entry whose age is the lifetime itself, and the
\* same call computed afresh over an older entry or none
C5_Witness ==
    /\ \E i \in DOMAIN cache_reads :
           /\ Served(cache_reads[i])
           /\ AgeFound(cache_reads[i]) = TtlOf(cache_reads[i].cache)
    /\ \E i \in DOMAIN cache_reads :
           /\ cache_reads[i].computed
           /\ cache_reads[i].found # <<>>
           /\ AgeFound(cache_reads[i]) > TtlOf(cache_reads[i].cache)

\* the look-ups of the step just taken that computed the entry of a key
Recomputed(name, key) ==
    \E i \in DOMAIN cache_reads' :
        /\ cache_reads'[i].cache = name
        /\ cache_reads'[i].key = key
        /\ cache_reads'[i].computed

\* what one step may do to one cache: a look-up of a key whose entry is older
\* than the lifetime (or missing) computes the value and stores it under that
\* key with the time of the look-up; a look-up of a key whose entry is younger
\* than the lifetime returns that entry; no entry is removed, and an entry
\* changes only by a look-up of its own key that computed it
CacheStep(name) ==
    /\ \A i \in DOMAIN cache_reads' :
           LET r == cache_reads'[i]
               found == r.key \in DOMAIN CacheOf(name)
               age == now - ComputedAt(name, CacheOf(name)[r.key])
           IN  r.cache = name =>
                   /\ r.key \in DOMAIN CacheOf(name)'
                   /\ (~found \/ age > TtlOf(name)) =>
                          /\ r.computed
                          /\ CacheOf(name)'[r.key] = r.returned
                          /\ ComputedAt(name, CacheOf(name)'[r.key]) = now'
                   /\ (found /\ age < TtlOf(name)) =>
                          /\ ~r.computed
                          /\ r.returned = CacheOf(name)[r.key]
                          /\ CacheOf(name)'[r.key] = CacheOf(name)[r.key]
    /\ \A key \in DOMAIN CacheOf(name) :
           /\ key \in DOMAIN CacheOf(name)'
           /\ CacheOf(name)'[key] # CacheOf(name)[key] => Recomputed(name, key)
    /\ \A key \in DOMAIN CacheOf(name)' \ DOMAIN CacheOf(name) :
           Recomputed(name, key)

\* C6: cache entries expire independently and lazily: a look-up of a key whose
\* entry is stale recomputes the value and overwrites that entry with one
\* computed at the time of the look-up, a look-up of a key within the lifetime
\* of its entry is served from that entry, and no look-up and no other
\* operation removes or changes the entry of any other key or of another cache.
C6_LazyIndependentExpiry ==
    [][CacheStep("context") /\ CacheStep("preference") /\ CacheStep("project")]_vars

\* a look-up has just overwritten a stale entry, while a stale entry of another
\* key of the same cache and a stale entry of another cache are still there
C6_Witness ==
    /\ Len(cache_reads) = 1
    /\ cache_reads[1].cache = "context"
    /\ cache_reads[1].computed
    /\ cache_reads[1].found # <<>>
    /\ AgeFound(cache_reads[1]) > ContextTtl
    /\ context_cache[cache_reads[1].key].analysis_timestamp = now
    /\ \E key \in DOMAIN context_cache :
           /\ key # cache_reads[1].key
           /\ now - context_cache[key].analysis_timestamp > ContextTtl
    /\ \E key \in DOMAIN project_cache :
           now - project_cache[key].analysis_timestamp > ProjectTtl

(***************************************************************************)
(* Properties of the filter stages.                                         *)
(***************************************************************************)
\* sub is what is left of s after discarding some of its elements
RECURSIVE IsSubSequence(_, _)
IsSubSequence(sub, s) ==
    IF sub = <<>> THEN TRUE
    ELSE IF s = <<>> THEN FALSE
    ELSE IF Head(sub) = Head(s) THEN IsSubSequence(Tail(sub), Tail(s))
    ELSE IsSubSequence(sub, Tail(s))

\* how often x occurs in s
Occurrences(s, x) == Cardinality({i \in 1..Len(s) : s[i] = x})

\* C8: the filter only discards: every suggestion returned by filter_suggestions
\* is a suggestion of the input list with its fields unchanged, none is added
\* or duplicated, and the output of each of the five stages is a sub-sequence
\* of the list the stage received.
C8_FilterOnlyDiscards ==
    \A t \in Range(filter_trace) :
        /\ IsSubSequence(t.stages[1], t.suggestions)
        /\ \A k \in 1..4 : IsSubSequence(t.stages[k + 1], t.stages[k])
        /\ \A i \in DOMAIN t.ranked_suggestions :
               /\ t.ranked_suggestions[i] \in Range(t.suggestions)
               /\ Occurrences(t.ranked_suggestions, t.ranked_suggestions[i])
                      <= Occurrences(t.suggestions, t.ranked_suggestions[i])

\* every stage has discarded something and the ranker has changed the order of
\* what was left
C8_Witness ==
    \E t \in Range(filter_trace) :
        /\ Len(t.stages[1]) < Len(t.suggestions)
        /\ \A k \in 1..4 : Len(t.stages[k + 1]) < Len(t.stages[k])
        /\ t.ranked_suggestions # t.stages[5]
        /\ Len(t.ranked_suggestions) > 1

\* two suggestions of the same type whose texts agree once whitespace is removed
SameContent(a, b) ==
    /\ a.suggestion_type = b.suggestion_type
    /\ StripWhitespace(a.suggested_code) = StripWhitespace(b.suggested_code)

\* the positions in s of the suggestions with the content of s[i]
Lookalikes(s, i) == {j \in DOMAIN s : SameContent(s[j], s[i])}

\* the least position of a set of positions
First(positions) == CHOOSE i \in positions : \A j \in positions : i <= j

\* the positions of s whose suggestion is in kept
Survivors(s, positions, kept) == {j \in positions : s[j] \in Range(kept)}

\* C9 as stated: whenever two or more suggestions of the diversity stage's input
\* have the same type and the same text after removing all whitespace, exactly
\* one of them survives the stage, and it is the first one in list order.
C9_ExactlyTheFirstSurvives ==
    \A t \in Range(filter_trace) :
        \A i \in DOMAIN t.stages[4] :
            Cardinality(Lookalikes(t.stages[4], i)) >= 2 =>
                Survivors(t.stages[4], Lookalikes(t.stages[4], i), t.stages[5])
                    = {First(Lookalikes(t.stages[4], i))}

\* the position in s of the last suggestion of kept (0 when kept is empty)
LastKept(s, kept) ==
    IF kept = <<>> THEN 0
    ELSE First({j \in DOMAIN s : s[j] = kept[Len(kept)]})

\* C9 amended: whenever two or more suggestions of the diversity stage's input
\* have the same type and the same text after removing all whitespace, at most
\* one of them survives the stage, namely the first one in list order; it does
\* survive unless the stage has kept max_suggestions_per_context suggestions
\* before reaching it, and then none of them survives.
C9_OnlyTheFirstSurvives ==
    \A t \in Range(filter_trace) :
        \A i \in DOMAIN t.stages[4] :
            Cardinality(Lookalikes(t.stages[4], i)) >= 2 =>
                LET first == First(Lookalikes(t.stages[4], i))
                    survivors == Survivors(t.stages[4], Lookalikes(t.stages[4], i),
                                           t.stages[5])
                IN  /\ survivors \subseteq {first}
                    /\ survivors = {} <=>
                           /\ Len(t.stages[5]) = MaxSuggestionsPerContext
                           /\ first > LastKept(t.stages[4], t.stages[5])

\* the diversity stage received two suggestions of the same type whose texts
\* differ in whitespace only, kept the first and discarded the second
C9_Witness ==
    \E t \in Range(filter_trace) :
        \E i, j \in DOMAIN t.stages[4] :
            /\ i < j
            /\ SameContent(t.stages[4][i], t.stages[4][j])
            /\ t.stages[4][i].suggested_code # t.stages[4][j].suggested_code
            /\ t.stages[4][i] \in Range(t.stages[5])
            /\ t.stages[4][j] \notin Range(t.stages[5])

\* C10: the list returned by filter_suggestions has at most
\* max_suggestions_per_context elements.
C10_AtMostMaxSuggestions ==
    \A t \in Range(filter_trace) :
        Len(t.ranked_suggestions) <= MaxSuggestionsPerContext

\* the diversity stage received more than max_suggestions_per_context
\* suggestions with pairwise different content and the filter returned exactly
\* max_suggestions_per_context
C10_Witness ==
    \E t \in Range(filter_trace) :
        /\ Cardinality({First(Lookalikes(t.stages[4], i)) : i \in DOMAIN t.stages[4]})
               > MaxSuggestionsPerContext
        /\ Len(t.ranked_suggestions) = MaxSuggestionsPerContext

(***************************************************************************)
(* Requests that overlap in time.  A request is the engine's                *)
(* analyze_and_suggest: it takes the engine by &mut self, calls            *)
(* score_patterns, calls filter_suggestions, and returns.  The steps of     *)
(* update_historical_patterns are taken one memory access at a time.        *)
(***************************************************************************)
\* the pattern a request is updating the history with
CurrentPattern(r) == calls[r].scored[calls[r].i]

\* the history with the entry of pattern_id replaced by entry
WithEntry(map, pattern_id, entry) ==
    {e \in map : e.pattern_id # pattern_id} \cup {entry}

\* analyze_and_suggest entered while another request may still be inside
BeginRequestUnguarded(r, p, context) ==
    /\ calls[r].pc = "idle"
    /\ requests < MaxRequests
    /\ borrow' = r
    /\ calls' = [calls EXCEPT ![r] =
                    [pc |-> "entry",
                     scored |-> ScoredPatterns(historical_patterns, scoring_config, p,
                                               "default", context, now),
                     i |-> 1, count |-> 0, before |-> historical_patterns]]
    /\ scoring_request' = ScoringRequest(p, context)
    /\ requests' = requests + 1
    /\ UNCHANGED <<now, scoring_config, historical_patterns, scoring_result,
                   scored_ids, filterState, frontState, sideState, audit>>

\* analyze_and_suggest(&mut self, ..) up to score_patterns' sort: the exclusive
\* borrow of the engine is taken, which no other request may hold
BeginRequest(r, p, context) ==
    /\ calls[r].pc = "idle"
    /\ borrow = "none"
    /\ requests < MaxRequests
    /\ borrow' = r
    /\ calls' = [calls EXCEPT ![r] =
                    [pc |-> "entry",
                     scored |-> ScoredPatterns(historical_patterns, scoring_config, p,
                                               "default", context, now),
                     i |-> 1, count |-> 0, before |-> historical_patterns]]
    /\ scoring_request' = ScoringRequest(p, context)
    /\ requests' = requests + 1
    /\ UNCHANGED <<now, scoring_config, historical_patterns, scoring_result,
                   scored_ids, filterState, frontState, sideState, audit>>

\* historical_patterns.entry(id).or_insert_with(|| pattern.clone())
EntryOrInsert(r) ==
    /\ calls[r].pc = "entry"
    /\ historical_patterns' =
           IF HasEntry(historical_patterns, CurrentPattern(r).pattern_id)
           THEN historical_patterns
           ELSE historical_patterns \cup {CurrentPattern(r)}
    /\ audit' =
           IF CurrentPattern(r).pattern_id \in DOMAIN audit
           THEN audit
           ELSE Insert(audit, CurrentPattern(r).pattern_id,
                       [applied |-> 0, usage_count |-> r, last_updated |-> r,
                        composite_score |-> r])
    /\ calls' = [calls EXCEPT ![r].pc = "load"]
    /\ UNCHANGED <<now, scoring_config, scoring_result, scoring_request, requests,
                   scored_ids, filterState, frontState, sideState, borrow>>

\* entry.usage_count += 1: the read
LoadCount(r) ==
    /\ calls[r].pc = "load"
    /\ calls' = [calls EXCEPT
                    ![r].pc = "store",
                    ![r].count = GetEntry(historical_patterns,
                                          CurrentPattern(r).pattern_id).usage_count]
    /\ UNCHANGED <<now, scoringState, filterState, frontState, sideState, borrow, audit>>

\* entry.usage_count += 1: the write
StoreCount(r) ==
    /\ calls[r].pc = "store"
    /\ historical_patterns' =
           WithEntry(historical_patterns, CurrentPattern(r).pattern_id,
                     [GetEntry(historical_patterns, CurrentPattern(r).pattern_id)
                         EXCEPT !.usage_count = calls[r].count + 1])
    /\ audit' = [audit EXCEPT ![CurrentPattern(r).pattern_id].usage_count = r]
    /\ calls' = [calls EXCEPT ![r].pc = "stamp"]
    /\ UNCHANGED <<now, scoring_config, scoring_result, scoring_request, requests,
                   scored_ids, filterState, frontState, sideState, borrow>>

\* entry.last_updated = chrono::Utc::now().timestamp()
StampEntry(r) ==
    /\ calls[r].pc = "stamp"
    /\ historical_patterns' =
           WithEntry(historical_patterns, CurrentPattern(r).pattern_id,
                     [GetEntry(historical_patterns, CurrentPattern(r).pattern_id)
                         EXCEPT !.last_updated = now])
    /\ audit' = [audit EXCEPT ![CurrentPattern(r).pattern_id].last_updated = r]
    /\ calls' = [calls EXCEPT ![r].pc = "score"]
    /\ UNCHANGED <<now, scoring_config, scoring_result, scoring_request, requests,
                   scored_ids, filterState, frontState, sideState, borrow>>

\* entry.composite_score = pattern.composite_score, and on to the next pattern
StoreComposite(r) ==
    /\ calls[r].pc = "score"
    /\ historical_patterns' =
           WithEntry(historical_patterns, CurrentPattern(r).pattern_id,
                     [GetEntry(historical_patterns, CurrentPattern(r).pattern_id)
                         EXCEPT !.composite_score = CurrentPattern(r).composite_score])
    /\ audit' = [audit EXCEPT
                    ![CurrentPattern(r).pattern_id].composite_score = r,
                    ![CurrentPattern(r).pattern_id].applied = @ + 1]
    /\ calls' = [calls EXCEPT
                    ![r].i = @ + 1,
                    ![r].pc = IF calls[r].i = Len(calls[r].scored)
                              THEN "filter" ELSE "entry"]
    /\ UNCHANGED <<now, scoring_config, scoring_result, scoring_request, requests,
                   scored_ids, filterState, frontState, sideState, borrow>>

\* score_patterns returns its ScoringResult and the request calls
\* filter_suggestions
RequestFilter(r, suggestions, context, user_behavior, project_info) ==
    /\ calls[r].pc = "filter"
    /\ FilterSuggestionsCall(suggestions, context, user_behavior, project_info)
    /\ scoring_result' = calls[r].scored
    /\ scored_ids' = scored_ids \cup {calls[r].scored[k].pattern_id :
                                         k \in 1..Len(calls[r].scored)}
    /\ calls' = [calls EXCEPT ![r].pc = "return"]
    /\ UNCHANGED <<now, scoring_config, historical_patterns, scoring_request, requests,
                   borrow, audit, frontState, sideState>>

\* analyze_and_suggest returns: the borrow of the engine ends
EndRequest(r) ==
    /\ calls[r].pc = "return"
    /\ borrow' = IF borrow = r THEN "none" ELSE borrow
    /\ calls' = [calls EXCEPT ![r] = IdleCall]
    /\ UNCHANGED <<now, scoringState, filterState, frontState, sideState, audit>>

\* what the requests are about: code whose functions and variables are named
\* alike, in a file with no recent patterns, at the top of the file
RequestPatterns == {p \in PatternAnalyses : p.function_naming = p.variable_naming}

RequestScoringContexts == {c \in ScoringContexts : c.recent_patterns = <<>>}

RequestCodingContexts == {c \in CodingContexts : c.cursor_position.row = 0}

\* the requests of two callers
ConcNext ==
    \/ \E r \in Requesters, p \in RequestPatterns, context \in RequestScoringContexts :
           BeginRequest(r, p, context)
    \/ \E r \in Requesters : EntryOrInsert(r)
    \/ \E r \in Requesters : LoadCount(r)
    \/ \E r \in Requesters : StoreCount(r)
    \/ \E r \in Requesters : StampEntry(r)
    \/ \E r \in Requesters : StoreComposite(r)
    \/ \E r \in Requesters, suggestions \in ShortInputLists,
          context \in RequestCodingContexts, user_behavior \in BehaviorAnalyses,
          project_info \in {SmallProject} :
           RequestFilter(r, suggestions, context, user_behavior, project_info)
    \/ \E r \in Requesters : EndRequest(r)

ConcSpec == Init /\ [][ConcNext]_vars

(***************************************************************************)
(* Properties of overlapping requests.                                      *)
(***************************************************************************)
\* the requests that are inside the engine
Inside == {r \in Requesters : calls[r].pc # "idle"}

OtherwiseAcceptable(x, t) ==
    /\ IsContextuallyRelevant(x, t.context_analysis)
    /\ MatchesUserPreferences(x, [t.preferences EXCEPT !.min_confidence_threshold = 0])
    /\ IsProjectCompatible(x, t.project_analysis)

\* C11 as stated: a suggestion whose confidence is below the quality threshold
\* never appears in the filter's output, and it is the quality stage that
\* removes it: it reaches that stage and does not leave it.
C11_RemovedByQualityStage ==
    \A t \in Range(filter_trace) :
        \A i \in DOMAIN t.suggestions :
            t.suggestions[i].confidence_score < MinQualityThreshold =>
                /\ t.suggestions[i] \notin Range(t.ranked_suggestions)
                /\ OtherwiseAcceptable(t.suggestions[i], t) =>
                       /\ t.suggestions[i] \in Range(t.stages[3])
                       /\ t.suggestions[i] \notin Range(t.stages[4])

\* C11 amended: a suggestion whose confidence is below the quality threshold
\* never appears in the filter's output; it does not reach the quality stage,
\* because the preference stage (or the context stage before it) removes it.
C11_RemovedBeforeQualityStage ==
    \A t \in Range(filter_trace) :
        \A i \in DOMAIN t.suggestions :
            t.suggestions[i].confidence_score < MinQualityThreshold =>
                /\ t.suggestions[i] \notin Range(t.ranked_suggestions)
                /\ t.suggestions[i] \notin Range(t.stages[2])

\* a suggestion of confidence 0.3 that is acceptable in every other respect has
\* passed the context stage and was removed by the preference stage
C11_Witness ==
    \E t \in Range(filter_trace) :
        \E i \in DOMAIN t.suggestions :
            /\ t.suggestions[i].confidence_score = 30
            /\ OtherwiseAcceptable(t.suggestions[i], t)
            /\ ~HasObviousSyntaxErrors(t.suggestions[i].suggested_code)
            /\ t.suggestions[i] \in Range(t.stages[1])
            /\ t.suggestions[i] \notin Range(t.stages[2])

\* C12: every suggestion in the output of filter_suggestions has a text that is
\* not empty or blank, with as many '{' as '}' and as many '(' as ')'.
C12_OutputIsWellFormed ==
    \A t \in Range(filter_trace) :
        \A i \in DOMAIN t.ranked_suggestions :
            LET text == t.ranked_suggestions[i].suggested_code
            IN  /\ \E k \in DOMAIN text : text[k] \notin {" ", "\n", "\t", "\r"}
                /\ Cardinality({k \in DOMAIN text : text[k] = "{"})
                       = Cardinality({k \in DOMAIN text : text[k] = "}"})
                /\ Cardinality({k \in DOMAIN text : text[k] = "("})
                       = Cardinality({k \in DOMAIN text : text[k] = ")"})

\* the input held a blank text and a text with an unclosed parenthesis; the
\* latter reached the quality stage, which removed it and kept others
C12_Witness ==
    \E t \in Range(filter_trace) :
        /\ \E i \in DOMAIN t.suggestions : IsBlank(t.suggestions[i].suggested_code)
        /\ \E i \in DOMAIN t.stages[3] :
               /\ CountChar(t.stages[3][i].suggested_code, "(") = 1
               /\ CountChar(t.stages[3][i].suggested_code, ")") = 0
               /\ t.stages[3][i] \notin Range(t.stages[4])
        /\ t.ranked_suggestions # <<>>

(***************************************************************************)
(* The source front end: AstParser::parse_code and the two extraction      *)
(* entry points built on it.  A source text is a sequence of characters    *)
(* (no carriage returns); a result is a Rust Result: ok with a value, or   *)
(* not ok with an error string.  Options are sequences of at most one      *)
(* element.                                                                 *)
(***************************************************************************)
SourceChars == {"{", "}", "\n"}

RECURSIVE Texts(_)
Texts(n) ==
    IF n = 0 THEN {<<>>}
    ELSE Texts(n - 1) \cup {Append(t, c) : t \in {u \in Texts(n - 1) : Len(u) = n - 1},
                                           c \in SourceChars}

Codes == Texts(MaxCodeLen)

\* language tags as callers give them
Languages == {"JavaScript", "typescript", "python", "rust", "unknown"}

\* str::to_lowercase on the tags above
ToLowercase(language) == IF language = "JavaScript" THEN "javascript" ELSE language

\* the tags parse_code dispatches to a grammar
RegisteredGrammars == {"javascript", "typescript", "python", "rust"}

\* The verdict of a grammar (swc, rustpython, syn) on a text.  The grammars are
\* external; they are stood for by one rule they share, that braces nest: the
\* empty text is accepted, a text with an unclosed or unopened brace rejected.
RECURSIVE BracesNest(_, _)
BracesNest(code, depth) ==
    IF code = <<>> THEN depth = 0
    ELSE IF Head(code) = "{" THEN BracesNest(Tail(code), depth + 1)
    ELSE IF Head(code) = "}" THEN depth > 0 /\ BracesNest(Tail(code), depth - 1)
    ELSE BracesNest(Tail(code), depth)

GrammarAccepts(code) == BracesNest(code, 0)

\* str::lines: the text cut at each "\n"; a final "\n" ends the last line and
\* starts no further one
RECURSIVE Lines(_)
Lines(code) ==
    IF code = <<>> THEN <<>>
    ELSE IF \E i \in DOMAIN code : code[i] = "\n"
         THEN LET i == CHOOSE k \in DOMAIN code :
                           code[k] = "\n" /\ \A j \in 1..(k - 1) : code[j] # "\n"
              IN  <<SubSeq(code, 1, i - 1)>> \o Lines(SubSeq(code, i + 1, Len(code)))
         ELSE <<code>>

Ok(value) == [value |-> <<value>>, ok |-> TRUE, error |-> <<>>]

Err(message) == [value |-> <<>>, ok |-> FALSE, error |-> <<message>>]

\* ParsedAst: a tree of one of the three grammars (stood for by the text it was
\* parsed from), or Generic(lines)
Tree(kind, code) == [kind |-> kind, source |-> code, lines |-> <<>>]

Generic(lines) == [kind |-> "Generic", source |-> <<>>, lines |-> lines]

\* format!("{} parsing error: {}", ..): the diagnostic of a grammar on a text
Diagnostic(grammar, code) == <<grammar, "parsing error", code>>

\* parse_javascript, parse_python, parse_rust
ParseJavascript(code) ==
    IF GrammarAccepts(code) THEN Ok(Tree("JavaScript", code))
    ELSE Err(Diagnostic("JavaScript", code))

ParsePython(code) ==
    IF GrammarAccepts(code) THEN Ok(Tree("Python", code))
    ELSE Err(Diagnostic("Python", code))

ParseRust(code) ==
    IF GrammarAccepts(code) THEN Ok(Tree("Rust", code))
    ELSE Err(Diagnostic("Rust", code))

\* parse_generic handing the text over as one line
ParseGenericUnsplit(code) == Ok(Generic(<<code>>))

\* parse_generic
ParseGeneric(code) == Ok(Generic(Lines(code)))

\* AstParser::parse_code
ParseCode(code, language) ==
    LET tag == ToLowercase(language)
    IN  IF tag \in {"javascript", "typescript"} THEN ParseJavascript(code)
        ELSE IF tag = "python" THEN ParsePython(code)
        ELSE IF tag = "rust" THEN ParseRust(code)
        ELSE ParseGeneric(code)

\* what an extraction was computed from: the tree or the Generic lines of a
\* successful parse, or the raw text scanned with regular expressions
FromAst(ast) == [mode |-> IF ast.kind = "Generic" THEN "Lines" ELSE "Tree", of |-> ast]

FromRegex(code, language) ==
    [mode |-> "Regex", of |-> [kind |-> ToLowercase(language), source |-> code, lines |-> <<>>]]

\* PatternExtractor::extract_patterns: `parse_code(code, language)?`, then the
\* analysis of the tree
ExtractPatterns(code, language) ==
    LET parsed == ParseCode(code, language)
    IN  IF parsed.ok THEN Ok(FromAst(parsed.value[1]))
        ELSE Err(parsed.error[1])

\* PatternAnalyzer::analyze_code: the patterns of the tree, or on a parse error
\* those of analyze_with_regex; it returns a Vec, never an error.  (It also adds
\* the patterns to a list and counts the language; nothing it returns reads them.)
AnalyzeCode(code, language) ==
    LET parsed == ParseCode(code, language)
    IN  IF parsed.ok THEN FromAst(parsed.value[1])
        ELSE FromRegex(code, language)

FrontCall(op, code, language, result) ==
    /\ parse_trace' = << [op |-> op, code |-> code, language |-> language,
                          result |-> result] >>
    /\ UNCHANGED <<now, scoringState, filterState, concState, generation_trace,
                   suggestion_config, sideState>>

CallParseCode(code, language) ==
    \E result \in {ParseCode(code, language)} :
        FrontCall("parse_code", code, language, result)

CallExtractPatterns(code, language) ==
    \E result \in {ExtractPatterns(code, language)} :
        FrontCall("extract_patterns", code, language, result)

CallAnalyzeCode(code, language) ==
    \E patterns \in {AnalyzeCode(code, language)} :
        FrontCall("analyze_code", code, language, Ok(patterns))

FrontNext ==
    \E code \in Codes, language \in Languages :
        \/ CallParseCode(code, language)
        \/ CallExtractPatterns(code, language)
        \/ CallAnalyzeCode(code, language)

FrontSpec == Init /\ [][FrontNext]_vars

(***************************************************************************)
(* Properties of the front end.                                             *)
(***************************************************************************)
\* the text is one a registered grammar was asked about and rejected
Rejected(t) ==
    /\ ToLowercase(t.language) \in RegisteredGrammars
    /\ ~GrammarAccepts(t.code)

\* C13: pattern extraction never blocks on a parser failure: for a text in a
\* language with a registered grammar that the grammar rejects, extraction
\* returns a pattern result computed by the fallback, not the parse error.
C13_ExtractionFallsBack ==
    \A t \in Range(parse_trace) :
        (t.op \in {"extract_patterns", "analyze_code"} /\ Rejected(t)) =>
            /\ t.result.ok
            /\ t.result.value[1].mode \in {"Lines", "Regex"}

\* C20: parse_code returns exactly one of a tree, an error with a diagnostic
\* or the line-based fallback; an error only for a registered grammar that
\* rejects the text; and for a tag without a registered grammar it succeeds
\* with the lines of the text in order: there is one line per line break plus
\* one for an unterminated last line, and the character at column k of the
\* n-th line of the text is the k-th character of the n-th line returned.
C20_ParseCodeTotal ==
    \A t \in Range(parse_trace) :
        t.op = "parse_code" =>
            LET r == t.result
                breaks == {i \in DOMAIN t.code : t.code[i] = "\n"}
                open == IF t.code # <<>> /\ t.code[Len(t.code)] # "\n" THEN 1 ELSE 0
                LineOf(i) == 1 + Cardinality({b \in breaks : b < i})
                ColumnOf(i) == Cardinality({j \in 1..i : \A b \in breaks : b < i => b < j})
            IN  /\ Len(r.value) + Len(r.error) = 1
                /\ r.ok <=> r.value # <<>>
                /\ ~r.ok => Rejected(t) /\ r.error[1] # <<>>
                /\ r.ok => r.value[1].kind \in {"JavaScript", "Python", "Rust", "Generic"}
                /\ ToLowercase(t.language) \notin RegisteredGrammars =>
                       /\ r.ok
                       /\ r.value[1].kind = "Generic"
                       /\ Len(r.value[1].lines) = Cardinality(breaks) + open
                       /\ \A n \in DOMAIN r.value[1].lines :
                              Len(r.value[1].lines[n])
                                  = Cardinality({i \in DOMAIN t.code \ breaks : LineOf(i) = n})
                       /\ \A i \in DOMAIN t.code \ breaks :
                              r.value[1].lines[LineOf(i)][ColumnOf(i)] = t.code[i]

\* parse_code, asked about a text of two lines under a tag without a grammar,
\* has returned its two lines
C20_Witness ==
    \E t \in Range(parse_trace) :
        /\ t.op = "parse_code"
        /\ t.language = "unknown"
        /\ t.code = <<"{", "\n", "}">>
        /\ t.result.ok
        /\ t.result.value[1].lines = << <<"{">>, <<"}">> >>

(***************************************************************************)
(* An engine with a history: the state score_patterns has left behind      *)
(* after many requests, from which the sub-scores of Tracked identities    *)
(* are computed.                                                            *)
(***************************************************************************)
\* usage counts the records have reached
UsageCounts == {2, 50, 100, 150}

\* the pattern set of the earlier requests
EarlierAnalysis ==
    [function_naming |-> "CamelCase", variable_naming |-> "CamelCase",
     indentation_type |-> "Spaces", indentation_size |-> 4,
     brace_style |-> "SameLine", function_length_preference |-> 20]

\* the record of an identity after count - 1 requests, all at time t and in one
\* context: the pattern of the first request with the count, and the composite
\* of the last request, which saw count - 1 uses (or, as the first, none)
RecordAfter(first, count, t, config) ==
    [first EXCEPT
        !.usage_count = count,
        !.last_updated = t,
        !.composite_score =
            Composite([first EXCEPT !.frequency_score =
                           IF count = 2 THEN 100 ELSE Min((count - 1) * 10, 1000)],
                      config)]

HistoryAfter(p, context, count, t) ==
    LET first == ScoredPatterns({}, DefaultScoringConfiguration, p, "default", context, t)
    IN  {RecordAfter(first[i], count, t, DefaultScoringConfiguration) : i \in 1..Len(first)}

\* the context of the earlier requests
EarlierContext ==
    [current_file_type |-> "javascript", recent_patterns |-> <<>>,
     project_context |-> <<"web", "app">>]

\* contexts of the requests to come: one that is empty throughout, and one whose
\* recent patterns and project context both name scored identities
TrackedContexts ==
    { [current_file_type |-> "javascript", recent_patterns |-> <<>>,
       project_context |-> <<>>],
      [current_file_type |-> "python",
       recent_patterns |-> << <<"indentation", "Spaces", "4">>,
                              <<"x", "variable", "naming", "style", "SnakeCase">> >>,
       project_context |-> <<"naming">>] }

\* configurations: those of ScoringConfigurations and one whose weights sum to 2
TrackedConfigurations ==
    ScoringConfigurations \cup
    { [recency_weight |-> 50, frequency_weight |-> 50, context_weight |-> 50,
       user_preference_weight |-> 50, confidence_threshold |-> 60] }

TrackedInit ==
    /\ now = 0
    /\ scoring_config = DefaultScoringConfiguration
    /\ \E count \in UsageCounts :
           historical_patterns = HistoryAfter(EarlierAnalysis, EarlierContext, count, 0)
    /\ scoring_result = <<>>
    /\ scoring_request = [patterns |-> <<>>, context |-> <<>>, at |-> 0,
                          config |-> DefaultScoringConfiguration,
                          tracked |-> {}, fresh |-> {},
                          repeats |-> FALSE, settled_before |-> {}]
    /\ requests = 0
    /\ scored_ids = {e.pattern_id : e \in historical_patterns}
    /\ context_cache = <<>>
    /\ preference_cache = <<>>
    /\ project_cache = <<>>
    /\ cache_reads = <<>>
    /\ advances = 0
    /\ filter_trace = <<>>
    /\ borrow = "none"
    /\ calls = [r \in Requesters |-> IdleCall]
    /\ audit = <<>>
    /\ parse_trace = <<>>
    /\ generation_trace = <<>>
    /\ suggestion_config = DefaultSuggestionConfiguration
    /\ analysis_trace = <<>>
    /\ session_data = NewSessionData
    /\ privacy_settings = DefaultPrivacySettings
    /\ wasm_cache = <<>>
    /\ access_count = <<>>
    /\ max_size = MaxCacheSize
    /\ frequency_log = <<>>

TrackedNext ==
    \/ \E p \in PatternAnalyses, context \in TrackedContexts :
           requests < MaxTrackedRequests /\ ScorePatterns(p, context)
    \/ \E new_config \in TrackedConfigurations : UpdateScoringConfig(new_config)
    \/ \E d \in {7} : AdvanceDays(d)

TrackedSpec == TrackedInit /\ [][TrackedNext]_vars

OccursIn(needle, hay) ==
    \E i \in 0..Len(hay) :
        /\ i + Len(needle) <= Len(hay)
        /\ \A k \in 1..Len(needle) : hay[i + k] = needle[k]

C17_UserPreferenceDefault ==
    \A i \in 1..Len(scoring_result) : scoring_result[i].user_preference_score = 500

InUnit(x) == 0 <= x /\ x <= 1000

SubScoresInUnit(ps) ==
    /\ InUnit(ps.recency_score)
    /\ InUnit(ps.frequency_score)
    /\ InUnit(ps.context_score)
    /\ InUnit(ps.user_preference_score)

WeightSum(config) ==
    config.recency_weight + config.frequency_weight
    + config.context_weight + config.user_preference_weight

\* (r * w_r + f * w_f + c * w_c + u * w_u) * confidence of ps's own fields,
\* compared with its composite, and the composite within [0, 1]
CompositeOfOwnSubScores(ps, config) ==
    /\ ps.composite_score =
           (ps.recency_score * config.recency_weight
            + ps.frequency_score * config.frequency_weight
            + ps.context_score * config.context_weight
            + ps.user_preference_score * config.user_preference_weight)
           * ps.confidence_score
    /\ 0 <= ps.composite_score
    /\ ps.composite_score <= 1000 * 100 * 100

\* C18 as stated: after any sequence of scoring requests every scored pattern
\* and every historical record has its four sub-scores in [0, 1] and, the
\* weights of the request summing to at most 1, a composite equal to
\* (r * w_r + f * w_f + c * w_c + u * w_u) * confidence and within [0, 1].
C18_CompositeOfEveryRecord ==
    [][ScoreStep =>
        /\ \A e \in Range(scoring_result') \cup historical_patterns' : SubScoresInUnit(e)
        /\ WeightSum(scoring_config) <= 100 =>
               \A i \in 1..Len(scoring_result') :
                   /\ CompositeOfOwnSubScores(scoring_result'[i], scoring_config)
                   /\ \A e \in historical_patterns' :
                          e.pattern_id = scoring_result'[i].pattern_id =>
                              CompositeOfOwnSubScores(e, scoring_config)
       ]_vars

\* C18 amended: the sub-scores of every scored pattern and every historical
\* record are in [0, 1] throughout; a pattern scored while the weights sum to
\* at most 1 has a composite equal to the formula on its sub-scores and within
\* [0, 1], and the record of its identity carries that same composite (next to
\* the sub-scores of the identity's first scoring).
C18_CompositeOfEveryScoring ==
    /\ [](\A e \in Range(scoring_result) \cup historical_patterns : SubScoresInUnit(e))
    /\ [][(ScoreStep /\ WeightSum(scoring_config) <= 100) =>
               \A i \in 1..Len(scoring_result') :
                   /\ CompositeOfOwnSubScores(scoring_result'[i], scoring_config)
                   /\ \A e \in historical_patterns' :
                          e.pattern_id = scoring_result'[i].pattern_id =>
                              e.composite_score = scoring_result'[i].composite_score
         ]_vars

\* under weights that sum to 1, a Tracked identity has been scored a week after
\* its record was written: the record carries the composite of this scoring and
\* sub-scores that differ from the ones of this scoring
C18_Witness ==
    /\ requests >= 1
    /\ WeightSum(scoring_request.config) = 100
    /\ scoring_config = scoring_request.config
    /\ \E i \in 1..Len(scoring_result) :
           \E e \in historical_patterns :
               /\ e.pattern_id = scoring_result[i].pattern_id
               /\ e.usage_count = 101
               /\ e.composite_score = scoring_result[i].composite_score
               /\ e.composite_score > 0
               /\ scoring_result[i].frequency_score = 1000
               /\ scoring_result[i].recency_score < 1000
               /\ e.frequency_score = 100
               /\ e.recency_score = 1000

(***************************************************************************)
(* SuggestionGenerationEngine.  It scores with a PatternScoringEngine of    *)
(* its own, which in the behaviours of GenerationSpec is the one the        *)
(* scoring variables describe.  Scores of a suggestion are in the units of  *)
(* the pattern they are copied from: confidence in hundredths, the pattern  *)
(* match (a composite) in 1e-7, preference and context in thousandths.      *)
(***************************************************************************)
\* configurations given to with_config: the default and a custom one
SuggestionConfigurations ==
    { DefaultSuggestionConfiguration,
      [max_suggestions |-> 4,
       confidence_threshold |-> 50,
       context_window_size |-> 50,
       prioritize_user_patterns |-> FALSE,
       enable_refactoring_suggestions |-> FALSE,
       suggestion_types |-> <<"CodeCompletion">>] }

\* texts of no line and of two lines
GenerationCodes == { <<>>, <<"{", "\n", "}">> }

\* CodePosition.line: at the start, at the end, and past the end of the text
CursorLines == {0, 2, 27, 28}

GenerationLanguages == {"javascript", "rust"}

\* extract_patterns_from_context, extract_function_context: fixed values
ExtractPatternsFromContext(context_lines) ==
    << <<"variable", "declaration">>, <<"function", "call">> >>

\* create_scoring_context: the ScoringContext, or a panic when the slice
\* lines[context_start..context_end] is taken with context_start > context_end
CreateScoringContext(code, line, language, config) ==
    LET lines == Lines(code)
        half == config.context_window_size \div 2
        context_start == IF line >= half THEN line - half ELSE 0
        context_end == Min(line + half, Len(lines))
    IN  IF context_start > context_end
        THEN [value |-> <<>>, panicked |-> TRUE]
        ELSE [value |-> << [current_file_type |-> language,
                            recent_patterns |->
                                ExtractPatternsFromContext(
                                    SubSeq(lines, context_start + 1, context_end)),
                            project_context |-> <<"code", "completion">>] >>,
              panicked |-> FALSE]

\* create_completion_from_pattern
CreateCompletionFromPattern(pattern) ==
    [id |-> <<"completion">> \o pattern.pattern_id,
     suggestion_type |-> "CodeCompletion",
     suggested_code |-> <<"// Generated code">>,
     confidence_score |-> pattern.confidence_score,
     pattern_match_score |-> pattern.composite_score,
     user_preference_score |-> pattern.user_preference_score,
     context_relevance |-> pattern.context_score]

\* generate_completion_suggestions: one suggestion for each of the first five
\* scored patterns whose composite is above the threshold; no template ones
GenerateCompletionSuggestions(scored, config) ==
    LET above == SelectSeq(Take(scored, 5),
                     LAMBDA ps : ps.composite_score > config.confidence_threshold * 100000)
    IN  [i \in 1..Len(above) |-> CreateCompletionFromPattern(above[i])]

\* generate_naming_suggestions, generate_function_suggestions,
\* generate_style_suggestions, generate_refactoring_suggestions: their detectors
\* find nothing
GenerateNamingSuggestions(scored, config) == <<>>

GenerateFunctionSuggestions(scored, config) == <<>>

GenerateStyleSuggestions(scored, config) == <<>>

GenerateRefactoringSuggestions(code, line, language) == <<>>

\* the candidates generate_suggestions collects, in order
GenerateCandidates(code, line, language, scored, config) ==
    (IF "CodeCompletion" \in Range(config.suggestion_types)
     THEN GenerateCompletionSuggestions(scored, config) ELSE <<>>)
    \o (IF "VariableNaming" \in Range(config.suggestion_types)
        THEN GenerateNamingSuggestions(scored, config) ELSE <<>>)
    \o (IF "FunctionSignature" \in Range(config.suggestion_types)
        THEN GenerateFunctionSuggestions(scored, config) ELSE <<>>)
    \o (IF "StyleImprovement" \in Range(config.suggestion_types)
        THEN GenerateStyleSuggestions(scored, config) ELSE <<>>)
    \o (IF config.enable_refactoring_suggestions
        THEN GenerateRefactoringSuggestions(code, line, language) ELSE <<>>)

\* confidence + pattern match + user preference + context relevance, in 1e-7
RankingSum(s) ==
    s.confidence_score * 100000 + s.pattern_match_score
    + s.user_preference_score * 10000 + s.context_relevance * 10000

\* Vec::sort_by with score_b.partial_cmp(score_a): stable, descending by the sum
RECURSIVE InsertByRankingSum(_, _)
InsertByRankingSum(sorted, x) ==
    IF sorted = <<>> THEN <<x>>
    ELSE IF RankingSum(Head(sorted)) >= RankingSum(x)
         THEN <<Head(sorted)>> \o InsertByRankingSum(Tail(sorted), x)
         ELSE <<x>> \o sorted

RECURSIVE SortByRankingSum(_)
SortByRankingSum(suggestions) ==
    IF suggestions = <<>> THEN <<>>
    ELSE InsertByRankingSum(SortByRankingSum(SubSeq(suggestions, 1, Len(suggestions) - 1)),
                            suggestions[Len(suggestions)])

\* filter_and_rank_suggestions without the sort
FilterAndRankSuggestionsUnsorted(suggestions, config) ==
    Take(SelectSeq(suggestions,
                   LAMBDA s : s.confidence_score >= config.confidence_threshold),
         config.max_suggestions)

\* filter_and_rank_suggestions: retain, sort_by, truncate
FilterAndRankSuggestions(suggestions, config) ==
    Take(SortByRankingSum(
             SelectSeq(suggestions,
                       LAMBDA s : s.confidence_score >= config.confidence_threshold)),
         config.max_suggestions)

\* histories of the engine's own scoring engine: none, one whose records have all
\* been used 99 times, and one in which the naming identities have recurred
\* more often (79 times) than the others (49 times)
GenerationContext ==
    [current_file_type |-> "javascript",
     recent_patterns |-> ExtractPatternsFromContext(<<>>),
     project_context |-> <<"code", "completion">>]

GenerationHistories ==
    { {},
      HistoryAfter(EarlierAnalysis, GenerationContext, 100, 0),
      {e \in HistoryAfter(EarlierAnalysis, GenerationContext, 80, 0) :
          e.confidence_score = 80}
      \cup {e \in HistoryAfter(EarlierAnalysis, GenerationContext, 50, 0) :
               e.confidence_score # 80} }

\* generate_suggestions(code, cursor_position, patterns, user_behavior, language)
GenerateSuggestions(code, line, p, language) ==
    /\ requests < MaxGenerations
    /\ \E context \in {CreateScoringContext(code, line, language, suggestion_config)} :
           IF context.panicked
           THEN /\ generation_trace' =
                       << [code |-> code, line |-> line, language |-> language,
                           patterns |-> p, outcome |-> "panic",
                           candidates |-> <<>>, suggestions |-> <<>>] >>
                /\ UNCHANGED <<scoringState, frequency_log>>
           ELSE \E scored \in {ScoredPatterns(historical_patterns, scoring_config, p,
                                              "default", context.value[1], now)} :
                    /\ historical_patterns' =
                           UpdateHistoricalPatterns(historical_patterns, scored, now)
                    /\ scoring_result' = scored
                    /\ scored_ids' = scored_ids
                                     \cup {scored[i].pattern_id : i \in 1..Len(scored)}
                    /\ frequency_log' = LogFrequencies(frequency_log, scored)
                    /\ scoring_request' = ScoringRequest(p, context.value[1])
                    /\ requests' = requests + 1
                    /\ UNCHANGED scoring_config
                    /\ \E candidates \in {GenerateCandidates(code, line, language, scored,
                                                             suggestion_config)} :
                           generation_trace' =
                               << [code |-> code, line |-> line, language |-> language,
                                   patterns |-> p, outcome |-> "Ok",
                                   candidates |-> candidates,
                                   suggestions |->
                                       FilterAndRankSuggestions(candidates,
                                                                suggestion_config)] >>
    /\ UNCHANGED <<now, filterState, concState, parse_trace, suggestion_config, toolState>>

\* the engine after SuggestionGenerationEngine::new or with_config, fresh or with
\* the history of earlier calls
GenerationInit ==
    /\ now = 0
    /\ scoring_config = DefaultScoringConfiguration
    /\ historical_patterns \in GenerationHistories
    /\ scoring_result = <<>>
    /\ scoring_request = [patterns |-> <<>>, context |-> <<>>, at |-> 0,
                          config |-> DefaultScoringConfiguration,
                          tracked |-> {}, fresh |-> {},
                          repeats |-> FALSE, settled_before |-> {}]
    /\ requests = 0
    /\ scored_ids = {e.pattern_id : e \in historical_patterns}
    /\ context_cache = <<>>
    /\ preference_cache = <<>>
    /\ project_cache = <<>>
    /\ cache_reads = <<>>
    /\ advances = 0
    /\ filter_trace = <<>>
    /\ borrow = "none"
    /\ calls = [r \in Requesters |-> IdleCall]
    /\ audit = <<>>
    /\ parse_trace = <<>>
    /\ generation_trace = <<>>
    /\ suggestion_config \in SuggestionConfigurations
    /\ analysis_trace = <<>>
    /\ session_data = NewSessionData
    /\ privacy_settings = DefaultPrivacySettings
    /\ wasm_cache = <<>>
    /\ access_count = <<>>
    /\ max_size = MaxCacheSize
    /\ frequency_log = <<>>

GenerationNext ==
    \E code \in GenerationCodes, line \in CursorLines, p \in PatternAnalyses,
       language \in GenerationLanguages :
        GenerateSuggestions(code, line, p, language)

GenerationSpec == GenerationInit /\ [][GenerationNext]_vars

(***************************************************************************)
(* Properties of suggestion generation.                                     *)
(***************************************************************************)
\* C14: generate_suggestions returns, for every text, language tag, cursor
\* position (past the end of the text included) and history, a result or a
\* tagged error; it never panics.
C14_GenerateSuggestionsReturns ==
    \A t \in Range(generation_trace) : t.outcome \in {"Ok", "Err"}

MeetsThreshold(s) == s.confidence_score >= suggestion_config.confidence_threshold

\* C19: what generate_suggestions returns are candidates that meet the
\* confidence threshold, each once, in non-increasing order of confidence +
\* pattern match + user preference + context relevance; all of them when they
\* are at most max_suggestions, otherwise max_suggestions of them, none left
\* out having a greater sum than one returned.
C19_FilteredSortedTruncated ==
    \A t \in Range(generation_trace) :
        t.outcome = "Ok" =>
            LET meeting == {c \in Range(t.candidates) : MeetsThreshold(c)}
                out == t.suggestions
            IN  /\ Range(out) \subseteq meeting
                /\ Cardinality(Range(out)) = Len(out)
                /\ Len(out) = Min(Cardinality(meeting), suggestion_config.max_suggestions)
                /\ \A i, j \in DOMAIN out :
                       i < j => RankingSum(out[i]) >= RankingSum(out[j])
                /\ \A c \in meeting \ Range(out) :
                       \A i \in DOMAIN out : RankingSum(out[i]) >= RankingSum(c)

\* a call has collected five candidates, in an order that is not the order of
\* their sums, and has returned four of them
C19_Witness ==
    \E t \in Range(generation_trace) :
        /\ t.outcome = "Ok"
        /\ Len(t.candidates) = 5
        /\ \E i, j \in DOMAIN t.candidates :
               i < j /\ RankingSum(t.candidates[i]) < RankingSum(t.candidates[j])
        /\ Len(t.suggestions) = 4
        /\ suggestion_config.max_suggestions = 4

(***************************************************************************)
(* The extractors.  A source text is taken declaration by declaration: a   *)
(* tree is the sequence of its top-level items, a Generic text the         *)
(* sequence of its lines, one declaration (or none) to a line, written in  *)
(* the language of the tag it is scanned under.                            *)
(***************************************************************************)
\* a top-level item or line: a function, variable or class declaration of a
\* name, or a statement that declares nothing
Declaration(kind, name) == [name |-> name, kind |-> kind]

Declarations ==
    {Declaration("function", "f"), Declaration("variable", "x"),
     Declaration("class", "C"), Declaration("other", "")}

\* language tags given with a tree or with Generic lines
ExtractorLanguages == {"JavaScript", "python", "unknown"}

RECURSIVE DeclarationLists(_)
DeclarationLists(n) ==
    IF n = 0 THEN {<<>>}
    ELSE DeclarationLists(n - 1)
           \cup {Append(t, d) : t \in {u \in DeclarationLists(n - 1) : Len(u) = n - 1},
                                d \in Declarations}

\* ParsedAst values given to AstParser::extract_patterns
ParsedAsts ==
    {Tree(kind, items) : kind \in {"JavaScript", "Python", "Rust"},
                         items \in DeclarationLists(MaxDeclarations)}
      \cup {Generic(lines) : lines \in DeclarationLists(MaxDeclarations)}

\* CodingPattern::new
CodingPattern(id, pattern_type, language, confidence) ==
    [confidence |-> confidence, id |-> id, language |-> language,
     pattern_type |-> pattern_type]

\* pattern_type_to_string
PatternTypeToString(pattern_type) ==
    CASE pattern_type = "FunctionDefinition" -> "function_definition"
      [] pattern_type = "ClassDefinition" -> "class_definition"
      [] pattern_type = "VariableDeclaration" -> "variable_declaration"
      [] OTHER -> "unknown"

CreateFunctionPattern(name, language, pattern_type) ==
    CodingPattern(<<language, PatternTypeToString(pattern_type), name>>,
                  PatternTypeToString(pattern_type), language, 80)

CreateVariablePattern(name, language) ==
    CodingPattern(<<language, "variable", name>>, "variable_declaration", language, 60)

CreateClassPattern(name, language) ==
    CodingPattern(<<language, "class", name>>, "class_definition", language, 70)

CreateStructPattern(name, language) ==
    CodingPattern(<<language, "struct", name>>, "class_definition", language, 70)

\* the loop `for item in items { match item { .. => patterns.push(..) } }`:
\* the items of the kinds, in the order of the items
RECURSIVE Matching(_, _)
Matching(items, kinds) ==
    IF items = <<>> THEN <<>>
    ELSE (IF Head(items).kind \in kinds THEN <<Head(items)>> ELSE <<>>)
           \o Matching(Tail(items), kinds)

\* .. and the patterns Made of them
PushEach(items, kinds, Made(_)) ==
    LET matching == Matching(items, kinds)
    IN  [i \in DOMAIN matching |-> Made(matching[i])]

\* extract_js_patterns
ExtractJsPatterns(module) ==
    LET Made(item) ==
            CASE item.kind = "function" ->
                     CreateFunctionPattern(item.name, "javascript", "FunctionDefinition")
              [] item.kind = "variable" -> CreateVariablePattern(item.name, "javascript")
              [] item.kind = "class" -> CreateClassPattern(item.name, "javascript")
    IN  PushEach(module, {"function", "variable", "class"}, Made)

\* extract_py_patterns
ExtractPyPatterns(suite) ==
    LET Made(item) ==
            CASE item.kind = "function" ->
                     CreateFunctionPattern(item.name, "python", "FunctionDefinition")
              [] item.kind = "variable" -> CreateVariablePattern(item.name, "python")
              [] item.kind = "class" -> CreateClassPattern(item.name, "python")
    IN  PushEach(suite, {"function", "variable", "class"}, Made)

\* extract_rs_patterns (the class of a Rust text is a struct, its variable a
\* const or static item)
ExtractRsPatterns(items) ==
    LET Made(item) ==
            CASE item.kind = "function" ->
                     CreateFunctionPattern(item.name, "rust", "FunctionDefinition")
              [] item.kind = "variable" -> CreateVariablePattern(item.name, "rust")
              [] item.kind = "class" -> CreateStructPattern(item.name, "rust")
    IN  PushEach(items, {"function", "variable", "class"}, Made)

\* extract_regex_patterns: one pass of one regular expression over the text,
\* a pattern for each match; the expression of a pattern type matches the
\* declarations of that type
ExtractRegexPatterns(code, pattern_type, language) ==
    LET Made(line) ==
            CASE pattern_type = "FunctionDefinition" ->
                     CreateFunctionPattern(line.name, language, pattern_type)
              [] pattern_type = "VariableDeclaration" ->
                     CreateVariablePattern(line.name, language)
              [] pattern_type = "ClassDefinition" -> CreateClassPattern(line.name, language)
        matched == CASE pattern_type = "FunctionDefinition" -> "function"
                     [] pattern_type = "VariableDeclaration" -> "variable"
                     [] pattern_type = "ClassDefinition" -> "class"
    IN  PushEach(code, {matched}, Made)

\* extract_generic_patterns: for a tag with regular expressions, the function
\* pass, then the variable pass, then the class pass
ExtractGenericPatterns(lines, language) ==
    IF ToLowercase(language) \in RegisteredGrammars
    THEN ExtractRegexPatterns(lines, "FunctionDefinition", language)
           \o ExtractRegexPatterns(lines, "VariableDeclaration", language)
           \o ExtractRegexPatterns(lines, "ClassDefinition", language)
    ELSE <<>>

\* AstParser::extract_patterns
AstExtractPatterns(ast, language) ==
    CASE ast.kind = "JavaScript" -> ExtractJsPatterns(ast.source)
      [] ast.kind = "Python" -> ExtractPyPatterns(ast.source)
      [] ast.kind = "Rust" -> ExtractRsPatterns(ast.source)
      [] ast.kind = "Generic" -> ExtractGenericPatterns(ast.lines, language)

(***************************************************************************)
(* The naming-style detectors.  Identifiers are sequences of characters.   *)
(***************************************************************************)
Identifiers ==
    { <<"a", "B">>, <<"A", "b">>, <<"a", "_", "b">>, <<"a", "-", "b">>,
      <<"A", "_", "B">>, <<"_", "a">> }

RECURSIVE NameLists(_)
NameLists(n) ==
    IF n = 0 THEN {<<>>}
    ELSE NameLists(n - 1)
           \cup {Append(t, name) : t \in {u \in NameLists(n - 1) : Len(u) = n - 1},
                                   name \in Identifiers}

\* ^first[rest]*$
MatchesClasses(name, first, rest) ==
    /\ name # <<>>
    /\ name[1] \in first
    /\ \A i \in 2..Len(name) : name[i] \in rest

\* CAMEL_CASE, PASCAL_CASE, SNAKE_CASE, KEBAB_CASE, SCREAMING_SNAKE
MatchesStyle(name, style) ==
    CASE style = "CamelCase" ->
             MatchesClasses(name, LowercaseLetters,
                            LowercaseLetters \cup UppercaseLetters \cup Digits)
      [] style = "PascalCase" ->
             MatchesClasses(name, UppercaseLetters,
                            LowercaseLetters \cup UppercaseLetters \cup Digits)
      [] style = "SnakeCase" ->
             MatchesClasses(name, LowercaseLetters, LowercaseLetters \cup Digits \cup {"_"})
      [] style = "KebabCase" ->
             MatchesClasses(name, LowercaseLetters, LowercaseLetters \cup Digits \cup {"-"})
      [] style = "ScreamingSnake" ->
             MatchesClasses(name, UppercaseLetters, UppercaseLetters \cup Digits \cup {"_"})

\* the if / else if chain over the regular expressions: the first style of
\* the chain the name matches, or "None"
RECURSIVE FirstMatch(_, _)
FirstMatch(name, chain) ==
    IF chain = <<>> THEN "None"
    ELSE IF MatchesStyle(name, Head(chain)) THEN Head(chain)
    ELSE FirstMatch(name, Tail(chain))

\* the counter of a style after the loop over the names
StyleCount(names, chain, style) ==
    Cardinality({i \in DOMAIN names : FirstMatch(names[i], chain) = style})

\* the chain of PatternExtractor::detect_naming_style
ExtractorChain == <<"CamelCase", "PascalCase", "SnakeCase", "KebabCase", "ScreamingSnake">>

\* PatternExtractor::detect_naming_style
DetectNamingStyle(names) ==
    IF names = <<>> THEN "Unknown"
    ELSE LET Count(style) == StyleCount(names, ExtractorChain, style)
             max_count == CHOOSE m \in {Count(ExtractorChain[i]) : i \in DOMAIN ExtractorChain} :
                              \A i \in DOMAIN ExtractorChain : Count(ExtractorChain[i]) <= m
         IN  IF Count("CamelCase") = max_count THEN "CamelCase"
             ELSE IF Count("PascalCase") = max_count THEN "PascalCase"
             ELSE IF Count("SnakeCase") = max_count THEN "SnakeCase"
             ELSE IF Count("KebabCase") = max_count THEN "KebabCase"
             ELSE IF Count("ScreamingSnake") = max_count THEN "ScreamingSnake"
             ELSE "Mixed"

\* FunctionSignatureDetector::detect_naming_style
SignatureDetectNamingStyle(names) ==
    IF names = <<>> THEN "Unknown"
    ELSE LET chain == <<"CamelCase", "PascalCase", "SnakeCase">>
             camel_count == StyleCount(names, chain, "CamelCase")
             pascal_count == StyleCount(names, chain, "PascalCase")
             snake_count == StyleCount(names, chain, "SnakeCase")
         IN  IF camel_count > pascal_count /\ camel_count > snake_count THEN "CamelCase"
             ELSE IF pascal_count > snake_count THEN "PascalCase"
             ELSE IF snake_count > 0 THEN "SnakeCase"
             ELSE "Mixed"

\* VariableNamingRecognizer::detect_primary_naming_style: the styles it can
\* return.  counts.iter().max_by_key(..) takes a largest counter in the
\* iteration order of the HashMap, which is not fixed: any of the styles with
\* the largest counter.
DetectPrimaryNamingStyle(names) ==
    IF names = <<>> THEN {"Unknown"}
    ELSE LET chain == <<"CamelCase", "PascalCase", "ScreamingSnake", "SnakeCase">>
             counted == {chain[i] : i \in {j \in DOMAIN chain :
                                              StyleCount(names, chain, chain[j]) > 0}}
         IN  IF counted = {} THEN {"Mixed"}
             ELSE {style \in counted :
                      \A other \in counted :
                          StyleCount(names, chain, other) <= StyleCount(names, chain, style)}

ExtractorCall(op, input, language, result) ==
    /\ analysis_trace' = << [result |-> result, language |-> language, op |-> op,
                             input |-> input] >>
    /\ UNCHANGED <<now, scoringState, filterState, concState, frontState, session_data,
                   privacy_settings, wasm_cache, access_count, max_size, frequency_log>>

CallAstExtractPatterns(ast, language) ==
    \E result \in {AstExtractPatterns(ast, language)} :
        ExtractorCall("extract_patterns", ast, language, result)

CallDetectNamingStyle(names) ==
    \E result \in {DetectNamingStyle(names)} :
        ExtractorCall("detect_naming_style", names, "", result)

CallSignatureDetectNamingStyle(names) ==
    \E result \in {SignatureDetectNamingStyle(names)} :
        ExtractorCall("FunctionSignatureDetector::detect_naming_style", names, "", result)

CallDetectPrimaryNamingStyle(names) ==
    \E result \in DetectPrimaryNamingStyle(names) :
        ExtractorCall("detect_primary_naming_style", names, "", result)

ExtractorNext ==
    \/ \E ast \in ParsedAsts, language \in ExtractorLanguages :
           CallAstExtractPatterns(ast, language)
    \/ \E names \in NameLists(MaxNames) :
           \/ CallDetectNamingStyle(names)
           \/ CallSignatureDetectNamingStyle(names)
           \/ CallDetectPrimaryNamingStyle(names)

ExtractorSpec == Init /\ [][ExtractorNext]_vars

(***************************************************************************)
(* The style metrics.  Texts are sequences of characters; "f" stands for   *)
(* the head of a function declaration (function f()), "x" for a statement. *)
(***************************************************************************)
\* the lines the texts are made of: a one-line function, a function head
\* with its brace, a closing brace, statements indented by one space, by two
\* spaces and by a tab
StyleLines ==
    { <<"f", "{", "}">>, <<"f", "{">>, <<"}">>, <<" ", "x">>, <<" ", " ", "x">>,
      <<"\t", "x">> }

RECURSIVE StyleTexts(_)
StyleTexts(n) ==
    IF n = 0 THEN {<<>>}
    ELSE StyleTexts(n - 1)
           \cup {line : line \in StyleLines}
           \cup {t \o <<"\n">> \o line : t \in StyleTexts(n - 1) \ {<<>>}, line \in StyleLines}

\* the length of the run of ch the line starts with
RECURSIVE LeadingRun(_, _)
LeadingRun(line, ch) ==
    IF line # <<>> /\ Head(line) = ch THEN 1 + LeadingRun(Tail(line), ch) ELSE 0

\* str::trim_end, str::trim, str::ends_with, str::trim_end_matches
RECURSIVE TrimEnd(_)
TrimEnd(text) ==
    IF text # <<>> /\ IsWhitespace(text[Len(text)])
    THEN TrimEnd(SubSeq(text, 1, Len(text) - 1)) ELSE text

Trim(text) == TrimEnd(TrimStart(text))

EndsWith(text, ch) == text # <<>> /\ text[Len(text)] = ch

RECURSIVE TrimEndMatches(_, _)
TrimEndMatches(text, ch) ==
    IF EndsWith(text, ch) THEN TrimEndMatches(SubSeq(text, 1, Len(text) - 1), ch) ELSE text

\* detect_indentation: the pairs (type, size) it can return.  SPACES_INDENT
\* is tried first, TABS_INDENT on the lines it does not match.  The size is
\* counts.iter().max_by_key(..): a size with the largest counter in the
\* iteration order of the HashMap, which is not fixed: any of the sizes with
\* the largest counter.
DetectIndentation(lines) ==
    LET spaced == {i \in DOMAIN lines : LeadingRun(lines[i], " ") > 0}
        tabbed == {i \in DOMAIN lines : LeadingRun(lines[i], " ") = 0
                                          /\ LeadingRun(lines[i], "\t") > 0}
        space_indents == Cardinality(spaced)
        tab_indents == Cardinality(tabbed)
        indent_type == IF space_indents > tab_indents THEN "Spaces"
                       ELSE IF tab_indents > space_indents THEN "Tabs"
                       ELSE "Mixed"
        Count(size) == Cardinality({i \in spaced : LeadingRun(lines[i], " ") = size})
        sizes == {LeadingRun(lines[i], " ") : i \in spaced}
    IN  IF sizes = {} THEN {<<indent_type, 4>>}
        ELSE {<<indent_type, size>> :
                 size \in {z \in sizes : \A other \in sizes : Count(other) <= Count(z)}}

\* detect_brace_style
DetectBraceStyle(lines) ==
    LET pairs == 1..(Len(lines) - 1)
        OnNextLine(i) ==
            /\ Trim(lines[i + 1]) = <<"{">>
            /\ Trim(lines[i]) # <<>>
            /\ ~EndsWith(Trim(lines[i]), "{")
        OnSameLine(i) ==
            /\ ~OnNextLine(i)
            /\ EndsWith(Trim(lines[i]), "{")
            /\ Trim(TrimEndMatches(Trim(lines[i]), "{")) # <<>>
        next_line_count == Cardinality({i \in pairs : OnNextLine(i)})
        same_line_count == Cardinality({i \in pairs : OnSameLine(i)})
    IN  IF next_line_count > same_line_count THEN "NextLine"
        ELSE IF same_line_count > next_line_count THEN "SameLine"
        ELSE "Mixed"

\* analyze_style_metrics, the fields the detectors above give: the
\* StyleMetrics it can return
AnalyzeStyleMetrics(code) ==
    {[indentation_type |-> indentation[1], indentation_size |-> indentation[2],
      brace_style |-> DetectBraceStyle(Lines(code))] :
        indentation \in DetectIndentation(Lines(code))}

\* the top-level items of the tree of a text: its function declarations
TopLevelItems(code) ==
    LET lines == Lines(code)
    IN  [i \in DOMAIN lines |->
            IF lines[i] # <<>> /\ lines[i][1] = "f" THEN Declaration("function", "f")
            ELSE Declaration("other", "")]

\* PatternExtractor::extract_patterns on a javascript text: the PatternAnalyses
\* it can return, the style metrics and the patterns of its five extract_*
\* steps, which return none
ExtractPatternAnalysis(code) ==
    IF ParseCode(code, "javascript").ok
    THEN {Ok([patterns |-> <<>>, style_metrics |-> metrics]) :
             metrics \in AnalyzeStyleMetrics(code)}
    ELSE {Err(ParseCode(code, "javascript").error[1])}

CallExtractPatternAnalysis(code) ==
    \E result \in ExtractPatternAnalysis(code) :
        ExtractorCall("PatternExtractor::extract_patterns", code, "javascript", result)

StyleNext == \E code \in StyleTexts(MaxLines) : CallExtractPatternAnalysis(code)

StyleSpec == Init /\ [][StyleNext]_vars

(***************************************************************************)
(* Properties of the extractors.                                            *)
(***************************************************************************)
\* the declarations of a call's input, in source order
DeclarationsOf(t) ==
    IF t.input.kind = "Generic" THEN t.input.lines ELSE t.input.source

\* the declarations extraction recognizes: every function, class and
\* variable declaration of a tree, and of Generic lines under a tag that has
\* regular expressions
Recognized(t) ==
    IF t.input.kind = "Generic" /\ ToLowercase(t.language) \notin RegisteredGrammars
    THEN <<>>
    ELSE SelectSeq(DeclarationsOf(t), LAMBDA d : d.kind # "other")

\* the pattern is the one of the declaration
PatternOfDeclaration(pattern, d) ==
    /\ pattern.id[Len(pattern.id)] = d.name
    /\ pattern.pattern_type =
           (CASE d.kind = "function" -> "function_definition"
              [] d.kind = "variable" -> "variable_declaration"
              [] d.kind = "class" -> "class_definition")

\* C21: extract_patterns emits exactly one pattern per recognized function,
\* class or variable declaration, in source order and without removing
\* duplicates, for trees and for Generic lines alike; the empty text gives the
\* empty sequence.
C21_OnePatternPerDeclarationInOrder ==
    \A t \in Range(analysis_trace) :
        t.op = "extract_patterns" =>
            /\ Len(t.result) = Len(Recognized(t))
            /\ \A i \in DOMAIN t.result : PatternOfDeclaration(t.result[i], Recognized(t)[i])

\* every identifier of the set is written in the style: it matches the
\* style's expression and no other's but for the letters-only overlap
AllOfStyle(names, style) ==
    /\ names # <<>>
    /\ \A i \in DOMAIN names : FirstMatch(names[i], ExtractorChain) = style

\* the styles with the most matching identifiers of the set
MostMatched(names) ==
    {style \in Range(ExtractorChain) :
        \A other \in Range(ExtractorChain) :
            StyleCount(names, ExtractorChain, other) <= StyleCount(names, ExtractorChain, style)}

\* C22: the naming-style detector returns the style with the highest match
\* count: CamelCase, SnakeCase, PascalCase for sets all of that style, Mixed
\* for a set in which no one style has the highest count, and Mixed or
\* Unknown when no identifier matches any style.
C22_HighestMatchCountWins ==
    \A t \in Range(analysis_trace) :
        t.op = "detect_naming_style" =>
            /\ \A style \in {"CamelCase", "SnakeCase", "PascalCase"} :
                   AllOfStyle(t.input, style) => t.result = style
            /\ (\A i \in DOMAIN t.input : FirstMatch(t.input[i], ExtractorChain) = "None")
                   => t.result \in {"Mixed", "Unknown"}
            /\ (\E i \in DOMAIN t.input : FirstMatch(t.input[i], ExtractorChain) # "None")
                   => IF Cardinality(MostMatched(t.input)) = 1
                      THEN t.result \in MostMatched(t.input)
                      ELSE t.result = "Mixed"

\* C23: the naming-style routine is the same function wherever it is used:
\* the style the function-signature detector and the variable-naming
\* recognizer return for an identifier set is the style the pattern
\* extractor's detector returns for it.
C23_SameRoutineEverywhere ==
    \A t \in Range(analysis_trace) :
        t.op \in {"detect_naming_style", "FunctionSignatureDetector::detect_naming_style",
                  "detect_primary_naming_style"}
            => t.result = DetectNamingStyle(t.input)

\* the run-lengths of leading spaces of the space-indented lines of a text
IndentSizes(code) ==
    {LeadingRun(Lines(code)[i], " ") : i \in {j \in DOMAIN Lines(code) :
                                                LeadingRun(Lines(code)[j], " ") > 0}}

\* how many lines of the text are indented by that many spaces
LinesIndentedBy(code, size) ==
    Cardinality({i \in DOMAIN Lines(code) : LeadingRun(Lines(code)[i], " ") = size})

\* the most frequent run-lengths
Modes(code) ==
    {size \in IndentSizes(code) :
        \A other \in IndentSizes(code) : LinesIndentedBy(code, other) <= LinesIndentedBy(code, size)}

\* C24: the declared indent size is the most frequent leading-space
\* run-length among the space-indented lines; it is 4 when several
\* run-lengths are tied for most frequent, and 4 when no line is indented
\* with spaces; so it is a function of the text.
C24_IndentSizeIsModeOrFour ==
    \A t \in Range(analysis_trace) :
        (t.op = "PatternExtractor::extract_patterns" /\ t.result.ok) =>
            t.result.value[1].style_metrics.indentation_size
                = (IF Cardinality(Modes(t.input)) = 1
                   THEN CHOOSE size \in Modes(t.input) : TRUE
                   ELSE 4)

\* a javascript text without indented lines in which a function declaration
\* opens its brace on the line of the declaration
SameLineFunctionText(code) ==
    /\ \A i \in DOMAIN Lines(code) : ~IsWhitespace(Lines(code)[i][1])
    /\ \E i \in DOMAIN Lines(code) : StartsWith(Lines(code)[i], <<"f", "{">>)

\* C25: for a javascript text with no indented lines in which a function
\* declaration opens its brace on its own line's end, extraction detects a
\* function-definition pattern, reports the default indent size 4 and brace
\* style SameLine.
C25_SameLineFunctionScenario ==
    \A t \in Range(analysis_trace) :
        (t.op = "PatternExtractor::extract_patterns" /\ SameLineFunctionText(t.input)
           /\ ParseCode(t.input, "javascript").ok) =>
            /\ t.result.ok
            /\ \E pattern \in Range(AstExtractPatterns(Tree("JavaScript", TopLevelItems(t.input)),
                                                      "javascript")) :
                   pattern.pattern_type = "function_definition"
            /\ t.result.value[1].style_metrics.indentation_size = 4
            /\ t.result.value[1].style_metrics.brace_style = "SameLine"

(***************************************************************************)
(* The usage counts and frequencies of recurring identities.               *)
(***************************************************************************)
\* the identities a score_patterns step has scored
ScoredNow == {scoring_result'[i].pattern_id : i \in 1..Len(scoring_result')}

\* C26: from an empty history, the usage_count stored for an identity is the
\* number of requests that scored it: a request leaves it at 1 for an
\* identity it scores for the first time and one higher than before for an
\* identity with a record, and leaves the records of all other identities
\* as they were.
C26_UsageCountCountsScorings ==
    [][ScoreStep =>
          /\ \A id \in ScoredNow :
                 GetEntry(historical_patterns', id).usage_count
                     = (IF HasEntry(historical_patterns, id)
                        THEN GetEntry(historical_patterns, id).usage_count + 1
                        ELSE 1)
          /\ \A e \in historical_patterns :
                 e.pattern_id \notin ScoredNow => e \in historical_patterns']_vars

\* the sequence never steps down
NonDecreasing(s) == \A i, j \in DOMAIN s : i <= j => s[i] <= s[j]

\* C27: the frequency sub-score of an identity never decreases as it recurs,
\* from its first (New) scoring onwards.
C27_FrequencyNeverDecreases ==
    \A id \in DOMAIN frequency_log : NonDecreasing(frequency_log[id])

\* C27, amended: the frequency sub-score of an identity never decreases from
\* its second scoring (its first as a Tracked identity) onwards; its first
\* scoring has the fixed 0.1 of a New identity.
C27_FrequencyNeverDecreasesOnceTracked ==
    \A id \in DOMAIN frequency_log :
        /\ frequency_log[id][1] = 100
        /\ NonDecreasing(Tail(frequency_log[id]))

\* an identity scored four times, with a frequency that fell after the first
\* scoring and rose at each scoring after that
C27_Witness ==
    \E id \in DOMAIN frequency_log :
        /\ Len(frequency_log[id]) = 4
        /\ frequency_log[id][2] < frequency_log[id][1]
        /\ frequency_log[id][2] < frequency_log[id][3]
        /\ frequency_log[id][3] < frequency_log[id][4]

(***************************************************************************)
(* Soundness of the context cache.                                          *)
(***************************************************************************)
\* C28: the analysis analyze_context returns for a coding context has the
\* context type a fresh analysis of that context would have, and is never an
\* entry computed from a context with another current line.
C28_ContextCacheSound ==
    \A i \in DOMAIN cache_reads :
        cache_reads[i].cache = "context" =>
            cache_reads[i].returned.current_context_type
                = DetermineContextType(cache_reads[i].input)

(***************************************************************************)
(* The user behaviour tracker.                                              *)
(***************************************************************************)
TrackedLanguages == {"python", "rust"}

\* PrivacySettings values given to update_privacy_settings
PrivacySettingsValues == {[data_collection_enabled |-> enabled] : enabled \in BOOLEAN}

\* the rest of the model stays as it is while the tracker works
TrackerFrame ==
    UNCHANGED <<now, scoringState, filterState, concState, frontState, analysis_trace,
                wasm_cache, access_count, max_size, frequency_log>>

\* start_session
StartSession ==
    /\ session_data' = NewSessionData
    /\ UNCHANGED privacy_settings
    /\ TrackerFrame

\* track_suggestion_interaction (process_feedback does nothing)
TrackSuggestionInteraction(accepted) ==
    /\ session_data.suggestions_accepted < MaxTracked
    /\ session_data.suggestions_rejected < MaxTracked
    /\ session_data' =
           IF accepted
           THEN [session_data EXCEPT !.suggestions_accepted = @ + 1]
           ELSE [session_data EXCEPT !.suggestions_rejected = @ + 1]
    /\ UNCHANGED privacy_settings
    /\ TrackerFrame

\* track_coding_activity
TrackCodingActivity(language, lines_written, keystrokes) ==
    /\ session_data.lines_written + lines_written <= MaxTracked
    /\ session_data.keystrokes + keystrokes <= MaxTracked
    /\ session_data' =
           [session_data EXCEPT
               !.languages_used = IF language \in Range(@) THEN @ ELSE Append(@, language),
               !.lines_written = @ + lines_written,
               !.keystrokes = @ + keystrokes]
    /\ UNCHANGED privacy_settings
    /\ TrackerFrame

\* clear_tracking_data
ClearTrackingData == NewSessionData

\* update_privacy_settings
UpdatePrivacySettings(settings) ==
    /\ privacy_settings' = settings
    /\ session_data' = IF ~settings.data_collection_enabled THEN ClearTrackingData
                       ELSE session_data
    /\ TrackerFrame

\* delete_user_data
DeleteUserData ==
    /\ session_data' = NewSessionData
    /\ UNCHANGED privacy_settings
    /\ TrackerFrame

TrackerNext ==
    \/ StartSession
    \/ \E accepted \in BOOLEAN : TrackSuggestionInteraction(accepted)
    \/ \E language \in TrackedLanguages, lines_written \in {0, 1}, keystrokes \in {1} :
           TrackCodingActivity(language, lines_written, keystrokes)
    \/ \E settings \in PrivacySettingsValues : UpdatePrivacySettings(settings)
    \/ DeleteUserData

TrackerSpec == Init /\ [][TrackerNext]_vars

\* C29: while data collection is disabled the tracker holds no tracked user
\* data: the session data was cleared when it was disabled, and the tracking
\* calls made since have left the counters at zero and languages_used empty.
C29_NothingTrackedWhileDisabled ==
    ~privacy_settings.data_collection_enabled =>
        /\ session_data.suggestions_accepted = 0
        /\ session_data.suggestions_rejected = 0
        /\ session_data.lines_written = 0
        /\ session_data.keystrokes = 0
        /\ session_data.languages_used = <<>>

(***************************************************************************)
(* The WASM cache.  A HashMap is the function from the keys it holds to    *)
(* their entries.                                                           *)
(***************************************************************************)
CacheKeys == {"k1", "k2", "k3"}

CacheValues == {"v1", "v2"}

\* HashMap::remove
Remove(map, key) == [k \in DOMAIN map \ {key} |-> map[k]]

\* evict_least_used: the pairs (cache, access_count) it can leave.
\* access_count.iter().min_by_key(..) takes a smallest count in the iteration
\* order of the HashMap, which is not fixed: any of the keys with the
\* smallest count goes.
EvictLeastUsed(map, counts) ==
    IF DOMAIN counts = {} THEN {<<map, counts>>}
    ELSE {<<Remove(map, key), Remove(counts, key)>> :
             key \in {k \in DOMAIN counts : \A other \in DOMAIN counts :
                                                counts[k] <= counts[other]}}

\* the rest of the model stays as it is while the cache works
WasmFrame ==
    UNCHANGED <<now, scoringState, filterState, concState, frontState, analysis_trace,
                session_data, privacy_settings, max_size, frequency_log>>

\* WasmCache::get: a hit counts one access more
WasmGet(key) ==
    /\ key \in DOMAIN wasm_cache => access_count[key] < MaxAccesses
    /\ access_count' = IF key \in DOMAIN wasm_cache
                       THEN Insert(access_count, key,
                                   (IF key \in DOMAIN access_count
                                    THEN access_count[key] ELSE 0) + 1)
                       ELSE access_count
    /\ UNCHANGED wasm_cache
    /\ WasmFrame

\* WasmCache::set
WasmSet(key, value) ==
    /\ \E evicted \in (IF Cardinality(DOMAIN wasm_cache) >= max_size
                          /\ key \notin DOMAIN wasm_cache
                       THEN EvictLeastUsed(wasm_cache, access_count)
                       ELSE {<<wasm_cache, access_count>>}) :
           /\ wasm_cache' = Insert(evicted[1], key, value)
           /\ access_count' = Insert(evicted[2], key, 1)
    /\ WasmFrame

\* WasmCache::has and WasmCache::size take &self: they return a value to
\* their caller and write nothing
WasmHas(key) ==
    /\ (key \in DOMAIN wasm_cache) \in BOOLEAN
    /\ Cardinality(DOMAIN wasm_cache) >= 0
    /\ UNCHANGED vars

\* WasmCache::clear
WasmClear ==
    /\ wasm_cache' = <<>>
    /\ access_count' = <<>>
    /\ WasmFrame

\* WasmCache::new(max_size), for the sizes the behaviours use
WasmInit ==
    /\ now = 0
    /\ scoring_config = DefaultScoringConfiguration
    /\ historical_patterns = {}
    /\ scoring_result = <<>>
    /\ scoring_request = [patterns |-> <<>>, context |-> <<>>, at |-> 0,
                          config |-> DefaultScoringConfiguration,
                          tracked |-> {}, fresh |-> {},
                          repeats |-> FALSE, settled_before |-> {}]
    /\ requests = 0
    /\ scored_ids = {}
    /\ context_cache = <<>>
    /\ preference_cache = <<>>
    /\ project_cache = <<>>
    /\ cache_reads = <<>>
    /\ advances = 0
    /\ filter_trace = <<>>
    /\ borrow = "none"
    /\ calls = [r \in Requesters |-> IdleCall]
    /\ audit = <<>>
    /\ parse_trace = <<>>
    /\ generation_trace = <<>>
    /\ suggestion_config = DefaultSuggestionConfiguration
    /\ analysis_trace = <<>>
    /\ session_data = NewSessionData
    /\ privacy_settings = DefaultPrivacySettings
    /\ wasm_cache = <<>>
    /\ access_count = <<>>
    /\ max_size \in 0..MaxCacheSize
    /\ frequency_log = <<>>

WasmNext ==
    \E key \in CacheKeys :
        \/ WasmGet(key)
        \/ \E value \in CacheValues : WasmSet(key, value)
        \/ WasmHas(key)
        \/ WasmClear

WasmSpec == WasmInit /\ [][WasmNext]_vars

\* C30: for every max_size, after any sequence of set, get, has and clear
\* calls the cache holds at most max_size entries, and the keys with an
\* access count are exactly the keys held.
C30_CacheBounded ==
    /\ Cardinality(DOMAIN wasm_cache) <= max_size
    /\ DOMAIN access_count = DOMAIN wasm_cache

====
